---- MODULE Spec2Model ----
(***************************************************************************)
(* GoalPilot: the meeting scheduler of MeetingsModal.tsx and the routes    *)
(* and components around it (schedule route, SMS webhook and brain route,  *)
(* project-creator route, AIChat, Telegram linking).                       *)
(*                                                                         *)
(* The component keeps a form (duration, available hours, preferred days), *)
(* a wizard step and the list of suggested slots.  findAvailableSlots      *)
(* scans the coming days and proposes the slots of the available hours     *)
(* that collide with no calendar event.                                    *)
(*                                                                         *)
(* Time.  A Date is an integer: the minutes of local wall-clock time since *)
(* 00:00 of a reference Monday.  Seconds and milliseconds are dropped      *)
(* (setHours(h, m, 0, 0) zeroes them in every slot) and the local day has  *)
(* 1440 minutes (no daylight-saving change inside the scanned days; the    *)
(* browser's time zone is taken to be UTC).                                *)
(***************************************************************************)
EXTENDS Integers, Sequences, FiniteSets

VARIABLES step, form, suggestedSlots, calendarEvents, now

\* the schedule route: the parsed answer of the model, the clock reading of
\* validateTimeBlock and the response of the route
VARIABLES aiResponse, validatedAt, scheduleResponse

\* the SMS webhook and the brain route: the position of the webhook, the
\* form data of Twilio, the response of the brain route, the messages Twilio
\* has sent to phones and the table sms_messages
VARIABLES smsPc, inbound, brainResponse, outbound, sms_messages

\* the project-creator route: its position, body.calendarEvents and freeSlots
VARIABLES projectPc, plannerEvents, freeSlots

\* AIChat: its state (input, loading, pendingAction, messages), the message
\* in the hands of handleSend and what handleSend awaits, the providerToken
\* prop, the actions sent to the calendar and the number of actions the
\* assistant has proposed
VARIABLES input, loading, pendingAction, messages, userMessage, awaiting,
          providerToken, executed, proposed

\* Telegram linking: the table user_preferences, the webhook calls in
\* progress (one per chat), the replies sent and the number of codes made
VARIABLES user_preferences, updates, telegramReplies, issued

\* the tables scheduled_blocks, goals, projects and brain_dump (a row's id is
\* its position), the messages sendTelegramMessage has sent, and the agent
\* tool that ran last with what it returned
VARIABLES scheduled_blocks, goals, projects, brain_dump, telegramSent,
          toolCall, toolResult

meetingVars == <<step, form, suggestedSlots, calendarEvents, now>>

scheduleVars == <<aiResponse, validatedAt, scheduleResponse>>

smsVars == <<smsPc, inbound, brainResponse, outbound, sms_messages>>

plannerVars == <<projectPc, plannerEvents, freeSlots>>

chatVars == <<input, loading, pendingAction, messages, userMessage, awaiting,
              providerToken, executed, proposed>>

telegramVars == <<user_preferences, updates, telegramReplies, issued>>

dataVars == <<scheduled_blocks, goals, projects, brain_dump, telegramSent,
              toolCall, toolResult>>

\* the state outside the meeting scheduler
otherVars == <<scheduleVars, smsVars, plannerVars, chatVars, telegramVars,
               dataVars>>

vars == <<meetingVars, otherVars>>

----------------------------------------------------------------------------
(* Bounds of the model *)

\* calendarEvents holds at most this many events
MaxEvents == 1

\* only the first MaxToggledDay day buttons are clicked
MaxToggledDay == 1

\* the handler on its own is given at most this many calendar events
MaxBusy == 2

----------------------------------------------------------------------------
(* Values of the program *)

\* the weekday buttons, in the order of the `days` table
days == <<"monday", "tuesday", "wednesday", "thursday", "friday", "saturday", "sunday">>

\* the duration buttons
Durations == {15, 30, 45, 60, 90}

\* the form a fresh (or reset) modal shows; a time input holds "HH:MM",
\* kept here as the sequence of its characters
InitialForm ==
  [ duration         |-> 30,
    myAvailableStart |-> <<"0", "9", ":", "0", "0">>,
    myAvailableEnd   |-> <<"1", "7", ":", "0", "0">>,
    preferredDays    |-> <<"monday", "tuesday", "wednesday", "thursday", "friday">> ]

\* values typed into the "Available From" time input
AvailableStarts ==
  { <<"0", "9", ":", "0", "0">>,
    <<"0", "9", ":", "1", "5">>,
    <<"1", "6", ":", "0", "0">> }

\* values typed into the "Available Until" time input
AvailableEnds ==
  { <<"1", "7", ":", "0", "0">>,
    <<"1", "0", ":", "0", "0">>,
    <<"1", "7", ":", "3", "0">>,
    <<"2", "3", ":", "0", "0">> }

\* instants at which "Find Available Times" is pressed:
\* Monday 09:10 of the reference week, and Thursday 22:50
NowInstants == { 9 * 60 + 10, 3 * 1440 + 22 * 60 + 50 }

\* calendar events: two timed ones (start.dateTime, end.dateTime: an instant)
\* on the Tuesday of the reference week, 09:30-10:00 and 16:10-16:20, and an
\* all-day one (start.date, end.date: a calendar day) on its Friday
EventPool ==
  { [start |-> [dateTime |-> 1 * 1440 + 9 * 60 + 30], end |-> [dateTime |-> 1 * 1440 + 10 * 60]],
    [start |-> [dateTime |-> 1 * 1440 + 16 * 60 + 10], end |-> [dateTime |-> 1 * 1440 + 16 * 60 + 20]],
    [start |-> [date |-> 4], end |-> [date |-> 5]] }

RECURSIVE SeqsUpTo(_, _)
SeqsUpTo(S, n) ==
  IF n = 0 THEN { <<>> }
  ELSE LET shorter == SeqsUpTo(S, n - 1)
       IN shorter \cup { Append(s, e) : s \in shorter, e \in S }

EventLists == SeqsUpTo(EventPool, MaxEvents)

----------------------------------------------------------------------------
(* JavaScript helpers *)

\* Number("09") etc.: the value of a string of decimal digits
DigitValue(c) ==
  CASE c = "0" -> 0 [] c = "1" -> 1 [] c = "2" -> 2 [] c = "3" -> 3 [] c = "4" -> 4
    [] c = "5" -> 5 [] c = "6" -> 6 [] c = "7" -> 7 [] c = "8" -> 8 [] c = "9" -> 9

RECURSIVE Number(_)
Number(s) ==
  IF s = <<>> THEN 0
  ELSE Number(SubSeq(s, 1, Len(s) - 1)) * 10 + DigitValue(s[Len(s)])

\* "HH:MM".split(':').map(Number)
SplitTime(s) ==
  LET colon == CHOOSE i \in 1..Len(s) : s[i] = ":"
  IN << Number(SubSeq(s, 1, colon - 1)), Number(SubSeq(s, colon + 1, Len(s))) >>

\* array.includes(x)
Includes(array, x) == \E i \in 1..Len(array) : array[i] = x

\* array.filter(d => d !== x)
RECURSIVE FilterOut(_, _)
FilterOut(array, x) ==
  IF array = <<>> THEN <<>>
  ELSE IF Head(array) = x THEN FilterOut(Tail(array), x)
       ELSE <<Head(array)>> \o FilterOut(Tail(array), x)

\* date.getHours(), date.getMinutes()
GetHours(date) == (date % 1440) \div 60

GetMinutes(date) == date % 60

\* SetDate counting the offsets from yesterday, so that offset 1 is today
SetDateFromToday(date, dayOffset) == date + (dayOffset - 1) * 1440

\* SetDate counting the offsets from tomorrow, so that offset 14 is day 15
SetDateFromTomorrow(date, dayOffset) == date + (dayOffset + 1) * 1440

\* d = new Date(now); d.setDate(now.getDate() + dayOffset)
SetDate(date, dayOffset) == date + dayOffset * 1440

\* d = new Date(checkDate); d.setHours(hour, min, 0, 0)
SetHours(date, hour, min) ==
  (date \div 1440) * 1440 + hour * 60 + min

\* d = new Date(slotStart); d.setMinutes(d.getMinutes() + duration)
AddMinutes(date, minutes) == date + minutes

\* date.toLocaleDateString('en-US', { weekday: 'long' }).toLowerCase()
DayName(date) == days[((date \div 1440) % 7) + 1]

\* new Date(value.dateTime || value.date): a dateTime is an instant, and a
\* date "YYYY-MM-DD" is 00:00 UTC of that day, which is 00:00 local time here
\* (the browser's zone is taken to be UTC)
ToDate(value) ==
  IF "dateTime" \in DOMAIN value THEN value.dateTime ELSE value.date * 1440

EventStart(event) == ToDate(event.start)

EventEnd(event) == ToDate(event.end)

----------------------------------------------------------------------------
(* findAvailableSlots *)

\* "Parse available hours": startHour, startMin, endHour, endMin
AvailableHours(f) ==
  [ startHour |-> SplitTime(f.myAvailableStart)[1],
    startMin  |-> SplitTime(f.myAvailableStart)[2],
    endHour   |-> SplitTime(f.myAvailableEnd)[1],
    endMin    |-> SplitTime(f.myAvailableEnd)[2] ]

\* the first and the last dayOffset of the scan
FirstDayOffset == 1

LastDayOffset == 14

\* the number of suggestions kept
MaxSuggestions == 12

\* SkipDay with the test inverted: the preferred days are skipped
SkipDayInverted(f, dayName) == Includes(f.preferredDays, dayName)

\* "Skip if not a preferred day"
SkipDay(f, dayName) == ~Includes(f.preferredDays, dayName)

\* BeforeStart without the test of the minutes
BeforeStartNever(h, hour, min) == FALSE

\* BeforeStart with the comparison of the minutes turned round
BeforeStartFlipped(h, hour, min) == hour = h.startHour /\ min > h.startMin

\* first skip of the slot loop: the slot starts before the available start
BeforeStart(h, hour, min) == hour = h.startHour /\ min < h.startMin

\* second skip: in the last hour the slot runs over the end of the hour
PastLastHour(h, duration, hour, min) == hour = h.endHour - 1 /\ min + duration > 60

\* third skip: "Check if slot end exceeds available end time"
ExceedsEnd(h, slotEnd) ==
  \/ GetHours(slotEnd) > h.endHour
  \/ (GetHours(slotEnd) = h.endHour /\ GetMinutes(slotEnd) > h.endMin)

\* HasConflict seeing only the events that start inside the slot
HasConflictStartInside(events, slotStart, slotEnd) ==
  \E i \in 1..Len(events) :
    slotStart < EventStart(events[i]) /\ slotEnd > EventStart(events[i])

\* HasConflict with closed intervals: touching counts as a conflict
HasConflictClosed(events, slotStart, slotEnd) ==
  \E i \in 1..Len(events) :
    slotStart <= EventEnd(events[i]) /\ slotEnd >= EventStart(events[i])

\* HasConflict looking at the first event only
HasConflictFirstOnly(events, slotStart, slotEnd) ==
  /\ Len(events) > 0
  /\ slotStart < EventEnd(events[1]) /\ slotEnd > EventStart(events[1])

\* "Check for conflicts with existing events"
HasConflict(events, slotStart, slotEnd) ==
  \E i \in 1..Len(events) :
    slotStart < EventEnd(events[i]) /\ slotEnd > EventStart(events[i])

\* Push putting the new slot in front (unshift)
PushFront(slots, slotStart, slotEnd) == <<[start |-> slotStart, end |-> slotEnd]>> \o slots

\* slots.push({ start, end, ... }); the display strings are left out
Push(slots, slotStart, slotEnd) == Append(slots, [start |-> slotStart, end |-> slotEnd])

\* for (let min = 0; min < 60; min += 30) { ... }
RECURSIVE MinLoop(_, _, _, _, _, _, _)
MinLoop(f, h, events, checkDate, hour, min, slots) ==
  IF ~(min < 60) THEN slots
  ELSE LET slotStart == SetHours(checkDate, hour, min)
           slotEnd   == AddMinutes(slotStart, f.duration)
           skipped   == \/ BeforeStart(h, hour, min)
                        \/ PastLastHour(h, f.duration, hour, min)
                        \/ ExceedsEnd(h, slotEnd)
                        \/ HasConflict(events, slotStart, slotEnd)
       IN MinLoop(f, h, events, checkDate, hour, min + 30,
                  IF skipped THEN slots ELSE Push(slots, slotStart, slotEnd))

\* for (let hour = startHour; hour < endHour; hour++) { ... }
RECURSIVE HourLoop(_, _, _, _, _, _)
HourLoop(f, h, events, checkDate, hour, slots) ==
  IF ~(hour < h.endHour) THEN slots
  ELSE HourLoop(f, h, events, checkDate, hour + 1,
                MinLoop(f, h, events, checkDate, hour, 0, slots))

\* for (let dayOffset = 1; dayOffset <= 14; dayOffset++) { ... }
\* The result is what the iterations from dayOffset on push, in order (the
\* pushes of one day follow those of the days before it).
RECURSIVE DayLoop(_, _, _, _)
DayLoop(f, events, date, dayOffset) ==
  IF ~(dayOffset <= LastDayOffset) THEN <<>>
  ELSE LET checkDate == SetDate(date, dayOffset)
           h         == AvailableHours(f)
       IN (IF SkipDay(f, DayName(checkDate)) THEN <<>>
           ELSE HourLoop(f, h, events, checkDate, h.startHour, <<>>))
          \o DayLoop(f, events, date, dayOffset + 1)

\* Slice keeping one slot more
SliceOneMore(slots) ==
  SubSeq(slots, 1, IF Len(slots) < MaxSuggestions + 1 THEN Len(slots) ELSE MaxSuggestions + 1)

\* slots.slice(0, 12)
Slice(slots) ==
  SubSeq(slots, 1, IF Len(slots) < MaxSuggestions THEN Len(slots) ELSE MaxSuggestions)

\* the slots the handler hands to setSuggestedSlots
FoundSlots(f, events, date) == Slice(DayLoop(f, events, date, FirstDayOffset))

----------------------------------------------------------------------------
(* The rest of the application at rest *)

\* no answer of the model yet
NoAiResponse == [parsed |-> FALSE, blocks |-> <<>>]

\* the schedule route has not answered
NoScheduleResponse == [status |-> 0, blocks |-> <<>>, rejectedBlocks |-> <<>>]

ScheduleIdle ==
  /\ aiResponse = NoAiResponse
  /\ validatedAt = 0
  /\ scheduleResponse = NoScheduleResponse

\* no webhook call of Twilio
NoInbound == [From |-> "", Body |-> "", NumMedia |-> 0]

\* the brain route has not answered
NoBrainResponse == [status |-> 0, message |-> ""]

SmsIdle ==
  /\ smsPc = "idle"
  /\ inbound = NoInbound
  /\ brainResponse = NoBrainResponse
  /\ outbound = <<>>
  /\ sms_messages = <<>>

PlannerIdle ==
  /\ projectPc = "request"
  /\ plannerEvents = <<>>
  /\ freeSlots = <<>>

\* pendingAction = null
NoAction == [id |-> 0, type |-> ""]

\* the greeting of the assistant ("Hey! ...")
Greeting == [role |-> "assistant", content |-> <<"H", "e", "y", "!">>]

ChatIdle ==
  /\ input = <<>>
  /\ loading = FALSE
  /\ pendingAction = NoAction
  /\ messages = <<Greeting>>
  /\ userMessage = <<>>
  /\ awaiting = "nothing"
  /\ providerToken = TRUE
  /\ executed = <<>>
  /\ proposed = 0

\* the accounts and the Telegram chats
Users == {"u1", "u2"}

Chats == {"c1", "c2"}

\* a row of user_preferences that holds no code and no chat; a user without
\* a row is modelled by this row
NoPreferences == [connection_code |-> <<>>, telegram_chat_id |-> ""]

\* no webhook call in progress for a chat
NoUpdate == [pc |-> "idle", code |-> <<>>, userPref |-> ""]

TelegramIdle ==
  /\ user_preferences = [u \in Users |-> NoPreferences]
  /\ updates = [c \in Chats |-> NoUpdate]
  /\ telegramReplies = <<>>
  /\ issued = 0

\* no agent tool has run
NoToolCall == [userId |-> "", name |-> "", index |-> 0]

DataIdle ==
  /\ scheduled_blocks = <<>>
  /\ goals = <<>>
  /\ projects = <<>>
  /\ brain_dump = <<>>
  /\ telegramSent = <<>>
  /\ toolCall = NoToolCall
  /\ toolResult = <<>>

MeetingIdle ==
  /\ step = "form"
  /\ form = InitialForm
  /\ suggestedSlots = <<>>
  /\ calendarEvents = <<>>
  /\ now = 0

OthersIdle ==
  ScheduleIdle /\ SmsIdle /\ PlannerIdle /\ ChatIdle /\ TelegramIdle /\ DataIdle

----------------------------------------------------------------------------
(* The component *)

Init ==
  /\ step = "form"
  /\ form = InitialForm
  /\ suggestedSlots = <<>>
  /\ calendarEvents \in EventLists
  /\ now = 0
  /\ OthersIdle

\* a duration button
SetDuration ==
  /\ step = "form"
  /\ \E mins \in Durations : form' = [form EXCEPT !.duration = mins]
  /\ UNCHANGED <<step, suggestedSlots, calendarEvents, now>>
  /\ UNCHANGED otherVars

\* the "Available From" input
SetMyAvailableStart ==
  /\ step = "form"
  /\ \E value \in AvailableStarts : form' = [form EXCEPT !.myAvailableStart = value]
  /\ UNCHANGED <<step, suggestedSlots, calendarEvents, now>>
  /\ UNCHANGED otherVars

\* the "Available Until" input
SetMyAvailableEnd ==
  /\ step = "form"
  /\ \E value \in AvailableEnds : form' = [form EXCEPT !.myAvailableEnd = value]
  /\ UNCHANGED <<step, suggestedSlots, calendarEvents, now>>
  /\ UNCHANGED otherVars

\* a day button
toggleDay ==
  /\ step = "form"
  /\ \E i \in 1..MaxToggledDay :
       LET day == days[i]
       IN form' = [form EXCEPT !.preferredDays =
                     IF Includes(@, day) THEN FilterOut(@, day) ELSE Append(@, day)]
  /\ UNCHANGED <<step, suggestedSlots, calendarEvents, now>>
  /\ UNCHANGED otherVars

\* the body of the handler findAvailableSlots: it reads the clock, scans the
\* days and shows the slots
findAvailableSlotsBody ==
  /\ step = "form"
  /\ \E date \in NowInstants :
       /\ now' = date
       /\ suggestedSlots' = FoundSlots(form, calendarEvents, date)
  /\ step' = "slots"
  /\ UNCHANGED <<form, calendarEvents>>
  /\ UNCHANGED otherVars

\* the "Find Available Times" button, disabled while no day is preferred
findAvailableSlots ==
  /\ Len(form.preferredDays) # 0
  /\ findAvailableSlotsBody

\* the close button, the backdrop and "Cancel"
resetAndClose ==
  /\ step' = "form"
  /\ form' = InitialForm
  /\ suggestedSlots' = <<>>
  /\ now' = 0
  /\ UNCHANGED calendarEvents
  /\ UNCHANGED otherVars

Next ==
  \/ SetDuration
  \/ SetMyAvailableStart
  \/ SetMyAvailableEnd
  \/ toggleDay
  \/ findAvailableSlots
  \/ resetAndClose

Spec == Init /\ [][Next]_vars

----------------------------------------------------------------------------
(* The handler on its own: findAvailableSlots applied to a form of the      *)
(* component, whether or not the button that calls it is enabled.           *)

\* lists of preferred days the day buttons can produce
PreferredDayLists ==
  { <<>>,
    <<"monday", "tuesday", "wednesday", "thursday", "friday">>,
    <<"tuesday", "monday">>,
    <<"monday">> }

\* values of the "Available Until" input: those above and 12:00
HandlerEnds == AvailableEnds \cup { <<"1", "2", ":", "0", "0">> }

\* a timed event on the Monday after the reference week, 10:00-10:30
MondayBusy ==
  [start |-> [dateTime |-> 7 * 1440 + 10 * 60], end |-> [dateTime |-> 7 * 1440 + 10 * 60 + 30]]

\* the calendar given to the handler: up to MaxBusy different events, in any order
BusyLists ==
  { s \in SeqsUpTo(EventPool \cup {MondayBusy}, MaxBusy) :
      \A i \in 1..Len(s), j \in 1..Len(s) : i # j => s[i] # s[j] }

InitHandler ==
  /\ step = "form"
  /\ form \in [ duration         : Durations,
                myAvailableStart : AvailableStarts,
                myAvailableEnd   : HandlerEnds,
                preferredDays    : PreferredDayLists ]
  /\ suggestedSlots = <<>>
  /\ calendarEvents \in BusyLists
  /\ now = 0
  /\ OthersIdle

SpecHandler == InitHandler /\ [][findAvailableSlotsBody]_vars

----------------------------------------------------------------------------
(* Vocabulary of the properties *)

\* findAvailableSlots has run: suggestedSlots holds its result for this form,
\* these events and the instant now
Searched == step = "slots"

\* the calendar day (counted from the reference Monday) of an instant
DayOf(date) == date \div 1440

Today == DayOf(now)

\* the available hours as minutes of the day
WindowStart == AvailableHours(form).startHour * 60 + AvailableHours(form).startMin

WindowEnd == AvailableHours(form).endHour * 60 + AvailableHours(form).endMin

\* the weekday of calendar day d is one of the preferred days
Preferred(d) == Includes(form.preferredDays, days[(d % 7) + 1])

Returned(slot) == \E i \in 1..Len(suggestedSlots) : suggestedSlots[i] = slot

Overlaps(slot, event) == slot.start < EventEnd(event) /\ slot.end > EventStart(event)

Free(slot) == \A j \in 1..Len(calendarEvents) : ~Overlaps(slot, calendarEvents[j])

\* the candidates of calendar day d that the slot loop visits and keeps
DayCandidates(d) ==
  LET h    == AvailableHours(form)
      grid == { [start |-> d * 1440 + hour * 60 + min,
                 end   |-> d * 1440 + hour * 60 + min + form.duration] :
                  hour \in 0..23, min \in {0, 30} }
  IN { c \in grid :
         LET hour == GetHours(c.start)
             min  == GetMinutes(c.start)
         IN /\ Preferred(d)
            /\ h.startHour <= hour /\ hour < h.endHour
            /\ ~BeforeStart(h, hour, min)
            /\ ~PastLastHour(h, form.duration, hour, min)
            /\ ~ExceedsEnd(h, c.end)
            /\ Free(c) }

\* the candidates that survive the filters, over the days of the scan
Survivors == UNION { DayCandidates(Today + k) : k \in FirstDayOffset..LastDayOffset }

----------------------------------------------------------------------------
(* Properties *)

\* C1: no slot returned by findAvailableSlots overlaps a calendar event:
\* slot.start < event.end and slot.end > event.start never hold together.
C1_NoSlotOverlapsEvent ==
  \A i \in 1..Len(suggestedSlots) : Free(suggestedSlots[i])

\* a returned slot ends exactly where an event starts
C1_Witness ==
  /\ Searched
  /\ \E i \in 1..Len(suggestedSlots), j \in 1..Len(calendarEvents) :
       suggestedSlots[i].end = EventStart(calendarEvents[j])

C3_SlotNotInPast ==
  Searched => \A i \in 1..Len(suggestedSlots) : suggestedSlots[i].start >= now

\* slots are returned although today's available hours began before now
C3_Witness ==
  /\ Searched
  /\ Len(suggestedSlots) > 0
  /\ WindowStart < now % 1440

\* C4: the returned sequence is non-decreasing in start time.
C4_SlotsInOrder ==
  \A i \in 1..Len(suggestedSlots), j \in 1..Len(suggestedSlots) :
    i < j => suggestedSlots[i].start <= suggestedSlots[j].start

\* slots of two hours of one day and of two days are returned
C4_Witness ==
  /\ Searched
  /\ \E i \in 1..Len(suggestedSlots), j \in 1..Len(suggestedSlots) :
       /\ DayOf(suggestedSlots[i].start) = DayOf(suggestedSlots[j].start)
       /\ suggestedSlots[i].start # suggestedSlots[j].start
  /\ \E i \in 1..Len(suggestedSlots), j \in 1..Len(suggestedSlots) :
       DayOf(suggestedSlots[i].start) # DayOf(suggestedSlots[j].start)

\* C5: at most 12 slots are returned, and they are the first 12 (or all, when
\* fewer) of the surviving candidates in chronological order.
C5_FirstTwelveSurvivors ==
  Searched =>
    LET survivors == Survivors
        count     == Cardinality(survivors)
    IN /\ Len(suggestedSlots) <= 12
       /\ Len(suggestedSlots) = (IF count < 12 THEN count ELSE 12)
       /\ \A i \in 1..Len(suggestedSlots) :
            /\ suggestedSlots[i] \in survivors
            /\ Cardinality({ c \in survivors : c.start < suggestedSlots[i].start }) = i - 1

\* more than 12 candidates survive the filters
C5_Witness ==
  /\ Searched
  /\ Cardinality(Survivors) > 12
  /\ Len(suggestedSlots) = 12

\* C6: on every scanned preferred day every start availableStart + k * 30
\* whose slot ends by availableEnd is returned (unless the 12 are full) when
\* it is not in the past and overlaps no event.
C6_EveryWindowStepReturned ==
  (Searched /\ Len(suggestedSlots) < 12) =>
    \A d \in (Today + 1)..(Today + 14), k \in 0..47 :
      LET slot == [start |-> d * 1440 + WindowStart + k * 30,
                   end   |-> d * 1440 + WindowStart + k * 30 + form.duration]
      IN (/\ Preferred(d)
          /\ slot.end <= d * 1440 + WindowEnd
          /\ slot.start >= now
          /\ Free(slot)) => Returned(slot)

\* C7 as claimed: the days scanned are today .. today + 13: no slot is
\* returned on day today + 14 or later, and a candidate later today is
\* returned (unless the 12 are full).
C7_ScansTodayToDay13 ==
  Searched =>
    /\ \A i \in 1..Len(suggestedSlots) :
         DayOf(suggestedSlots[i].start) \in Today..(Today + 13)
    /\ Len(suggestedSlots) < 12 =>
         \A c \in DayCandidates(Today) : c.start >= now => Returned(c)

\* C7 as amended: the days scanned are today + 1 .. today + 14: every
\* returned slot lies on one of them, and every candidate of those days that
\* passes the filters is returned (unless the 12 are full).
C7_ScansTomorrowToDay14 ==
  Searched =>
    /\ \A i \in 1..Len(suggestedSlots) :
         DayOf(suggestedSlots[i].start) \in (Today + 1)..(Today + 14)
    /\ Len(suggestedSlots) < 12 =>
         \A k \in 1..14 : \A c \in DayCandidates(Today + k) : Returned(c)

\* a slot on day today + 14 is returned, and a candidate later today is not
C7_Witness ==
  /\ Searched
  /\ \E i \in 1..Len(suggestedSlots) : DayOf(suggestedSlots[i].start) = Today + 14
  /\ \E c \in DayCandidates(Today) : c.start >= now /\ ~Returned(c)

C10_NoPreferredDayNoSlot ==
  (Searched /\ form.preferredDays = <<>>) => suggestedSlots = <<>>

\* a search with no preferred day, over a calendar that holds an event
C10_Witness ==
  /\ Searched
  /\ form.preferredDays = <<>>
  /\ Len(calendarEvents) > 0
  /\ suggestedSlots = <<>>

\* the slot of form.duration minutes that starts at hour:min of calendar day d
SlotAt(d, hour, min) ==
  [start |-> d * 1440 + hour * 60 + min,
   end   |-> d * 1440 + hour * 60 + min + form.duration]

\* the scenario: available Monday 09:00-12:00, 60 minutes, busy Monday 10:00-10:30
C11_Scenario ==
  /\ Searched
  /\ form.duration = 60
  /\ form.myAvailableStart = <<"0", "9", ":", "0", "0">>
  /\ form.myAvailableEnd = <<"1", "2", ":", "0", "0">>
  /\ form.preferredDays = <<"monday">>
  /\ calendarEvents = <<MondayBusy>>

\* C11 as claimed: in the scenario the starts 09:00, 09:30 and 11:00 of that
\* Monday are accepted and the starts 10:00 and 10:30 are rejected.
C11_ScenarioAsClaimed ==
  C11_Scenario =>
    /\ Returned(SlotAt(7, 9, 0)) /\ Returned(SlotAt(7, 9, 30)) /\ Returned(SlotAt(7, 11, 0))
    /\ ~Returned(SlotAt(7, 10, 0)) /\ ~Returned(SlotAt(7, 10, 30))

\* C11 as amended: in the scenario the starts 09:00, 10:30 and 11:00 of that
\* Monday are accepted (09:00-10:00 and 10:30-11:30 only touch the busy
\* interval) and the starts 09:30 and 10:00 are rejected; no other slot of
\* that Monday is returned.
C11_ScenarioAsComputed ==
  C11_Scenario =>
    /\ Returned(SlotAt(7, 9, 0)) /\ Returned(SlotAt(7, 10, 30)) /\ Returned(SlotAt(7, 11, 0))
    /\ ~Returned(SlotAt(7, 9, 30)) /\ ~Returned(SlotAt(7, 10, 0))
    /\ Cardinality({ i \in 1..Len(suggestedSlots) : DayOf(suggestedSlots[i].start) = 7 }) = 3

\* the scenario has been searched
C11_Witness == C11_Scenario /\ Len(suggestedSlots) > 0

\* the preferred days in the order of the week
DaysInWeekOrder(list) == SelectSeq(days, LAMBDA d : Includes(list, d))

\* the events of a set in the order of their starts
RECURSIVE EventsByStart(_)
EventsByStart(S) ==
  IF S = {} THEN <<>>
  ELSE LET first == CHOOSE e \in S : \A o \in S : EventStart(e) <= EventStart(o)
       IN <<first>> \o EventsByStart(S \ {first})

EventSet(events) == { events[i] : i \in 1..Len(events) }

\* C13: the result does not depend on the order of the calendar events nor
\* on the order of the preferred days: it is the result for the same events
\* ordered by start and the same days in the order of the week.
C13_OrderOfInputsIrrelevant ==
  Searched =>
    suggestedSlots =
      FoundSlots([form EXCEPT !.preferredDays = DaysInWeekOrder(@)],
                 EventsByStart(EventSet(calendarEvents)), now)

\* a search over two events and two preferred days, both given out of order,
\* in which the second event costs a slot
C13_Witness ==
  /\ Searched
  /\ Len(calendarEvents) = 2
  /\ calendarEvents # EventsByStart(EventSet(calendarEvents))
  /\ form.preferredDays # DaysInWeekOrder(form.preferredDays)
  /\ Len(suggestedSlots) > 0
  /\ suggestedSlots # FoundSlots(form, <<calendarEvents[1]>>, now)

----------------------------------------------------------------------------
(* The schedule route (POST of the schedule API)                            *)
(*                                                                          *)
(* A JavaScript number is a record: NaN, or a value.  Every comparison with *)
(* NaN is false.  Durations are kept in minutes.                            *)

\* the answer holds at most this many blocks
MaxBlocks == 2

NaN == [nan |-> TRUE, value |-> 0]

Num(n) == [nan |-> FALSE, value |-> n]

\* a < b
Less(a, b) == ~a.nan /\ ~b.nan /\ a.value < b.value

\* a > b
Greater(a, b) == ~a.nan /\ ~b.nan /\ a.value > b.value

\* a >= b
AtLeast(a, b) == ~a.nan /\ ~b.nan /\ a.value >= b.value

\* a - b
Minus(a, b) == IF a.nan \/ b.nan THEN NaN ELSE Num(a.value - b.value)

\* the text of a timestamp in a block, by what the Date constructor makes of
\* it: a text that parses to an instant, or a text that does not parse
Timestamp(instant) == [parses |-> TRUE, instant |-> instant]

Unparseable == [parses |-> FALSE, instant |-> 0]

\* new Date(text): the instant, or an Invalid Date whose time value is NaN
NewDate(text) == IF text.parses THEN Num(text.instant) ELSE NaN

\* Date.getHours()
HoursOf(date) == IF date.nan THEN NaN ELSE Num(GetHours(date.value))

\* "Sanity check layer - validates AI suggestions"; date is the reading of
\* the clock
validateTimeBlock(block, date) ==
  LET start      == NewDate(block.start)
      end        == NewDate(block.end)
      hour       == HoursOf(start)
      durationMs == Minus(end, start)
  IN IF Less(hour, Num(5)) \/ AtLeast(hour, Num(23))
       THEN [valid |-> FALSE, reason |-> "Outside reasonable hours (5am-11pm)"]
     ELSE IF Less(durationMs, Num(30))
       THEN [valid |-> FALSE, reason |-> "Block too short (min 30 min)"]
     ELSE IF Greater(durationMs, Num(4 * 60))
       THEN [valid |-> FALSE, reason |-> "Block too long (max 4 hours)"]
     ELSE IF Less(start, Num(date))
       THEN [valid |-> FALSE, reason |-> "Cannot schedule in the past"]
     ELSE [valid |-> TRUE, reason |-> ""]

\* hasConflict with closed intervals: touching counts as a conflict
hasConflictClosed(block, existingEvents) ==
  LET blockStart == NewDate(block.start)
      blockEnd   == NewDate(block.end)
  IN \E i \in 1..Len(existingEvents) :
       LET eventStart == Num(EventStart(existingEvents[i]))
           eventEnd   == Num(EventEnd(existingEvents[i]))
       IN AtLeast(eventEnd, blockStart) /\ AtLeast(blockEnd, eventStart)

\* "Check if a time slot conflicts with existing events"
hasConflict(block, existingEvents) ==
  LET blockStart == NewDate(block.start)
      blockEnd   == NewDate(block.end)
  IN \E i \in 1..Len(existingEvents) :
       LET eventStart == Num(EventStart(existingEvents[i]))
           eventEnd   == Num(EventEnd(existingEvents[i]))
       IN Less(blockStart, eventEnd) /\ Greater(blockEnd, eventStart)

\* { ...block, reason }
WithReason(block, reason) == [start |-> block.start, end |-> block.end, reason |-> reason]

\* "THE SANITY CHECK LAYER": the loop over the blocks, from block i on
RECURSIVE SanityCheck(_, _, _, _, _, _)
SanityCheck(blocks, i, existingEvents, date, validatedBlocks, rejectedBlocks) ==
  IF i > Len(blocks)
    THEN [validatedBlocks |-> validatedBlocks, rejectedBlocks |-> rejectedBlocks]
  ELSE LET block      == blocks[i]
           validation == validateTimeBlock(block, date)
       IN IF ~validation.valid
            THEN SanityCheck(blocks, i + 1, existingEvents, date, validatedBlocks,
                             Append(rejectedBlocks, WithReason(block, validation.reason)))
          ELSE IF hasConflict(block, existingEvents)
            THEN SanityCheck(blocks, i + 1, existingEvents, date, validatedBlocks,
                             Append(rejectedBlocks,
                                    WithReason(block, "Conflicts with existing event")))
          ELSE SanityCheck(blocks, i + 1, existingEvents, date,
                           Append(validatedBlocks, block), rejectedBlocks)

\* the retry test that never fires
AllRejectedNever(validatedBlocks, blocks) == FALSE

\* "If too many blocks were rejected, ask AI to retry"
AllRejected(validatedBlocks, blocks) == Len(validatedBlocks) = 0 /\ Len(blocks) > 0

\* the response of the route to an answer of the model
ScheduleResponse(answer, existingEvents, date) ==
  IF ~answer.parsed
    THEN [status |-> 500, blocks |-> <<>>, rejectedBlocks |-> <<>>]
  ELSE LET checked == SanityCheck(answer.blocks, 1, existingEvents, date, <<>>, <<>>)
       IN IF AllRejected(checked.validatedBlocks, answer.blocks)
            THEN [status |-> 400, blocks |-> <<>>, rejectedBlocks |-> checked.rejectedBlocks]
          ELSE [status |-> 200, blocks |-> checked.validatedBlocks,
                rejectedBlocks |-> checked.rejectedBlocks]

\* the instants at which the route runs: Monday 08:00 and Tuesday 09:00
ScheduleInstants == { 8 * 60, 1440 + 9 * 60 }

\* a block from one instant to another
Block(from, to) == [start |-> Timestamp(from), end |-> Timestamp(to)]

\* blocks the model may suggest, on the Tuesday of the reference week unless
\* said otherwise: 10:00-11:00, 08:30-09:30, 09:00-10:00, 05:30-06:30,
\* 04:00-05:00, 23:00-23:30, 12:00-12:20, 12:00-17:00, Monday 07:00-08:00,
\* a block whose timestamps do not parse, a block whose end does not parse
BlockPool ==
  { Block(1440 + 10 * 60, 1440 + 11 * 60),
    Block(1440 + 8 * 60 + 30, 1440 + 9 * 60 + 30),
    Block(1440 + 9 * 60, 1440 + 10 * 60),
    Block(1440 + 5 * 60 + 30, 1440 + 6 * 60 + 30),
    Block(1440 + 4 * 60, 1440 + 5 * 60),
    Block(1440 + 23 * 60, 1440 + 23 * 60 + 30),
    Block(1440 + 12 * 60, 1440 + 12 * 60 + 20),
    Block(1440 + 12 * 60, 1440 + 17 * 60),
    Block(7 * 60, 8 * 60),
    [start |-> Unparseable, end |-> Unparseable],
    [start |-> Timestamp(1440 + 12 * 60), end |-> Unparseable] }

\* the answers of the model: text that is not JSON, or a list of blocks
AiResponses ==
  {NoAiResponse} \cup { [parsed |-> TRUE, blocks |-> b] : b \in SeqsUpTo(BlockPool, MaxBlocks) }

InitSchedule ==
  /\ step = "form"
  /\ form = InitialForm
  /\ suggestedSlots = <<>>
  /\ now = 0
  /\ calendarEvents \in EventLists
  /\ aiResponse \in AiResponses
  /\ validatedAt = 0
  /\ scheduleResponse = NoScheduleResponse
  /\ SmsIdle /\ PlannerIdle /\ ChatIdle /\ TelegramIdle
  /\ DataIdle

\* POST of the schedule route, from the answer of the model to the response
schedulePOST ==
  /\ scheduleResponse.status = 0
  /\ \E date \in ScheduleInstants :
       /\ validatedAt' = date
       /\ scheduleResponse' = ScheduleResponse(aiResponse, calendarEvents, date)
  /\ UNCHANGED <<meetingVars, aiResponse, smsVars, plannerVars, chatVars, telegramVars>>
  /\ UNCHANGED dataVars

SpecSchedule == InitSchedule /\ [][schedulePOST]_vars

----------------------------------------------------------------------------
(* The meeting scheduler and the schedule route over one calendar *)

\* forms of the component: 30 or 60 minutes, from 09:00 until 12:00 or 17:00,
\* on Mondays, or on Tuesdays and Mondays
BusyForms ==
  [ duration         : {30, 60},
    myAvailableStart : { <<"0", "9", ":", "0", "0">> },
    myAvailableEnd   : { <<"1", "2", ":", "0", "0">>, <<"1", "7", ":", "0", "0">> },
    preferredDays    : { <<"monday">>, <<"tuesday", "monday">> } ]

InitBusy ==
  /\ step = "form"
  /\ form \in BusyForms
  /\ suggestedSlots = <<>>
  /\ now = 0
  /\ calendarEvents \in BusyLists
  /\ aiResponse \in { [parsed |-> TRUE, blocks |-> <<b>>] : b \in BlockPool }
  /\ validatedAt = 0
  /\ scheduleResponse = NoScheduleResponse
  /\ SmsIdle /\ PlannerIdle /\ ChatIdle /\ TelegramIdle
  /\ DataIdle

NextBusy ==
  \/ findAvailableSlotsBody
  \/ schedulePOST

SpecBusy == InitBusy /\ [][NextBusy]_vars

\* the interval from..to shares an endpoint with the event: it starts where
\* the event ends or ends where the event starts
Touches(from, to, event) == from = EventEnd(event) \/ to = EventStart(event)

\* the interval from..to and the event, both half-open, have no instant in common
Apart(from, to, event) == to <= EventStart(event) \/ from >= EventEnd(event)

\* the interval touches an event of the calendar and is apart from them all
OnlyTouches(from, to) ==
  /\ \E j \in 1..Len(calendarEvents) : Touches(from, to, calendarEvents[j])
  /\ \A j \in 1..Len(calendarEvents) : Apart(from, to, calendarEvents[j])

\* the candidates of calendar day d inside the available hours, busy or not
WindowCandidates(d) ==
  LET h    == AvailableHours(form)
      grid == { [start |-> d * 1440 + hour * 60 + min,
                 end   |-> d * 1440 + hour * 60 + min + form.duration] :
                  hour \in 0..23, min \in {0, 30} }
  IN { c \in grid :
         LET hour == GetHours(c.start)
             min  == GetMinutes(c.start)
         IN /\ Preferred(d)
            /\ h.startHour <= hour /\ hour < h.endHour
            /\ ~BeforeStart(h, hour, min)
            /\ ~PastLastHour(h, form.duration, hour, min)
            /\ ~ExceedsEnd(h, c.end) }

\* the scan has been cut at the maximum number of suggestions
Full == Len(suggestedSlots) = MaxSuggestions

\* the schedule route has rejected the block for a conflict
RejectedForConflict(block) ==
  \E j \in 1..Len(scheduleResponse.rejectedBlocks) :
    scheduleResponse.rejectedBlocks[j] = WithReason(block, "Conflicts with existing event")

\* C12: busy intervals are half-open.  A candidate of findAvailableSlots that
\* starts where an event ends or ends where an event starts, and has no
\* instant in common with any event, is returned (unless the list is full);
\* a block of the schedule route that does so is not rejected for a conflict.
C12_TouchingIsNoConflict ==
  /\ (Searched /\ ~Full) =>
       \A k \in FirstDayOffset..LastDayOffset :
         \A c \in WindowCandidates(Today + k) :
           OnlyTouches(c.start, c.end) => Returned(c)
  /\ scheduleResponse.status # 0 =>
       \A i \in 1..Len(aiResponse.blocks) :
         LET block == aiResponse.blocks[i]
         IN (block.start.parses /\ block.end.parses
               /\ OnlyTouches(block.start.instant, block.end.instant))
              => ~RejectedForConflict(block)

\* both have run: a returned slot touches an event, and so does an accepted block
C12_Witness ==
  /\ Searched /\ ~Full
  /\ \E i \in 1..Len(suggestedSlots) :
       OnlyTouches(suggestedSlots[i].start, suggestedSlots[i].end)
  /\ scheduleResponse.status = 200
  /\ \E i \in 1..Len(scheduleResponse.blocks) :
       LET block == scheduleResponse.blocks[i]
       IN /\ block.start.parses /\ block.end.parses
          /\ OnlyTouches(block.start.instant, block.end.instant)

----------------------------------------------------------------------------
(* The schedule route: the blocks of the response *)

\* the route has answered with success
Scheduled == scheduleResponse.status = 200

\* the block and the event, both half-open, have an instant in common
BlockOverlaps(block, event) ==
  block.start.instant < EventEnd(event) /\ block.end.instant > EventStart(event)

\* C14: every block in `blocks` of a successful response has a start hour
\* within the bounds of the route (from 5 up to, not including, 23), lasts at
\* least 30 minutes and at most 4 hours, does not start before the time of
\* validation and overlaps none of the calendar events.
C14_BlocksPassedChecks ==
  Scheduled =>
    \A i \in 1..Len(scheduleResponse.blocks) :
      LET block == scheduleResponse.blocks[i]
      IN /\ block.start.parses /\ block.end.parses
         /\ GetHours(block.start.instant) >= 5 /\ GetHours(block.start.instant) < 23
         /\ block.end.instant - block.start.instant >= 30
         /\ block.end.instant - block.start.instant <= 4 * 60
         /\ block.start.instant >= validatedAt
         /\ \A j \in 1..Len(calendarEvents) : ~BlockOverlaps(block, calendarEvents[j])

\* C16: a block is accepted only if it starts between 7:00 AM and 11:00 PM:
\* no block of a successful response whose start is a time starts before
\* 7am or at or after 11pm.
C16_OnlyBetweenSevenAndEleven ==
  Scheduled =>
    \A i \in 1..Len(scheduleResponse.blocks) :
      LET block == scheduleResponse.blocks[i]
      IN block.start.parses =>
           GetHours(block.start.instant) >= 7 /\ GetHours(block.start.instant) < 23

\* the number of times the block occurs in the list
Occurrences(list, block) == Cardinality({ i \in 1..Len(list) : list[i] = block })

\* the rejected blocks without their reasons
Rejected ==
  [ j \in 1..Len(scheduleResponse.rejectedBlocks) |->
      [start |-> scheduleResponse.rejectedBlocks[j].start,
       end   |-> scheduleResponse.rejectedBlocks[j].end] ]

\* C17: when the answer of the model parses, every block it suggests is in
\* exactly one of `blocks` and `rejectedBlocks`, the rejected ones with a
\* reason; if it suggested a block and every block was rejected the response
\* is the 400 error with the rejected blocks; a success with no block comes
\* only from an answer with no block.
C17_BlocksPartitioned ==
  (scheduleResponse.status # 0 /\ aiResponse.parsed) =>
    /\ scheduleResponse.status \in {200, 400}
    /\ \A block \in BlockPool :
         Occurrences(aiResponse.blocks, block) =
           Occurrences(scheduleResponse.blocks, block) + Occurrences(Rejected, block)
    /\ \A j \in 1..Len(scheduleResponse.rejectedBlocks) :
         scheduleResponse.rejectedBlocks[j].reason # ""
    /\ (Len(aiResponse.blocks) > 0 /\ Len(Rejected) = Len(aiResponse.blocks))
         => scheduleResponse.status = 400
    /\ (Scheduled /\ Len(scheduleResponse.blocks) = 0) => Len(aiResponse.blocks) = 0

\* two blocks were suggested and both rejected, for different reasons
C17_Witness ==
  /\ scheduleResponse.status = 400
  /\ Len(scheduleResponse.rejectedBlocks) > 1
  /\ scheduleResponse.rejectedBlocks[1].reason # scheduleResponse.rejectedBlocks[2].reason

----------------------------------------------------------------------------
(* The SMS webhook and the brain route *)

\* the phones that write in; the first belongs to user u1, the second to nobody
Phones == {"+15550001", "+15550002"}

\* "Find user by phone number": the user_id of the row, "" when there is none
UserOfPhone(from) == IF from = "+15550001" THEN "u1" ELSE ""

\* the form data Twilio posts: a text, with or without a picture
Inbounds ==
  [ From     : Phones,
    Body     : {"buy milk", "what is due friday?", "remind me at 5"},
    NumMedia : {0, 1} ]

\* "Check for MMS images": MediaUrl0, "" for undefined
ImageUrl(data) == IF data.NumMedia > 0 THEN "https://api.twilio.com/media/0" ELSE ""

\* the body of the request the webhook sends to the brain route
BrainRequest(data) ==
  [ message     |-> data.Body,
    source      |-> IF ImageUrl(data) # "" THEN "mms" ELSE "sms",
    userId      |-> UserOfPhone(data.From),
    phoneNumber |-> data.From,
    imageUrl    |-> ImageUrl(data) ]

\* texts processBrain answers with
BrainReplies == {"Captured! Your brain is now free.", "You have 2 goals due Friday."}

\* the two rows the brain route logs for a known user
Conversation(request, response) ==
  << [user_id |-> request.userId, phone_number |-> request.phoneNumber,
      direction |-> "inbound", content |-> request.message],
     [user_id |-> request.userId, phone_number |-> request.phoneNumber,
      direction |-> "outbound", content |-> response] >>

\* the webhook receives the form data and calls the brain route
smsPOST ==
  /\ smsPc = "idle"
  /\ \E data \in Inbounds : inbound' = data
  /\ smsPc' = "brain"
  /\ UNCHANGED <<brainResponse, outbound, sms_messages>>
  /\ UNCHANGED <<meetingVars, scheduleVars, plannerVars, chatVars, telegramVars>>
  /\ UNCHANGED dataVars

\* POST of the brain route.  processBrain answers with a text or throws; for
\* source 'sms' the text is sent with sendSMS (messages.create of Twilio,
\* which succeeds or fails) and the conversation of a known user is logged
brainPOST ==
  /\ smsPc = "brain"
  /\ LET request == BrainRequest(inbound)
     IN \/ /\ brainResponse' = [status |-> 500, message |-> ""]
           /\ UNCHANGED <<outbound, sms_messages>>
        \/ \E response \in BrainReplies :
             /\ brainResponse' = [status |-> 200, message |-> response]
             /\ IF request.source = "web"
                  THEN UNCHANGED <<outbound, sms_messages>>
                ELSE IF request.source = "sms" /\ request.phoneNumber # ""
                  THEN /\ \E sent \in BOOLEAN :
                            outbound' =
                              IF sent
                                THEN Append(outbound, [to |-> request.phoneNumber,
                                                       body |-> response,
                                                       by |-> "messages.create"])
                              ELSE outbound
                       /\ sms_messages' =
                            IF request.userId # ""
                              THEN sms_messages \o Conversation(request, response)
                            ELSE sms_messages
                ELSE UNCHANGED <<outbound, sms_messages>>
  /\ smsPc' = "twiml"
  /\ UNCHANGED inbound
  /\ UNCHANGED <<meetingVars, scheduleVars, plannerVars, chatVars, telegramVars>>
  /\ UNCHANGED dataVars

\* the request to the brain route fails: fetch rejects in the webhook
brainUnreachable ==
  /\ smsPc = "brain"
  /\ smsPc' = "twiml"
  /\ UNCHANGED <<inbound, brainResponse, outbound, sms_messages>>
  /\ UNCHANGED <<meetingVars, scheduleVars, plannerVars, chatVars, telegramVars>>
  /\ UNCHANGED dataVars

\* the text of the <Message> the webhook answers Twilio with
TwiML(data) ==
  IF data.status = 0 THEN "Oops, brain hiccup! Try again in a sec."
  ELSE IF data.message # "" THEN data.message
  ELSE "Got it!"

\* "Return TwiML response": Twilio sends the <Message> to the sender
smsTwiML ==
  /\ smsPc = "twiml"
  /\ outbound' = Append(outbound, [to |-> inbound.From, body |-> TwiML(brainResponse),
                                   by |-> "twiml"])
  /\ smsPc' = "done"
  /\ UNCHANGED <<inbound, brainResponse, sms_messages>>
  /\ UNCHANGED <<meetingVars, scheduleVars, plannerVars, chatVars, telegramVars>>
  /\ UNCHANGED dataVars

InitSms == MeetingIdle /\ OthersIdle

NextSms ==
  \/ smsPOST
  \/ brainPOST
  \/ brainUnreachable
  \/ smsTwiML

SpecSms == InitSms /\ [][NextSms]_vars

\* the webhook has answered, the brain route answered with its text and, for
\* a plain SMS, sendSMS did not fail
ProcessedWithoutError ==
  /\ smsPc = "done"
  /\ brainResponse.status = 200
  /\ BrainRequest(inbound).source = "sms" =>
       \E i \in 1..Len(outbound) : outbound[i].by = "messages.create"

\* the messages sent to the sender that carry the reply of the assistant
RepliesToSender ==
  { i \in 1..Len(outbound) :
      outbound[i].to = inbound.From /\ outbound[i].body = brainResponse.message }

\* C15: for an inbound SMS processed without error, the reply of the
\* assistant is sent to the sender exactly once.
C15_RepliedExactlyOnce == ProcessedWithoutError => Cardinality(RepliesToSender) = 1

----------------------------------------------------------------------------
(* The project-creator route: the free slots of the next 7 days            *)
(*                                                                          *)
(* An event of body.calendarEvents is kept as the two instants that         *)
(* new Date(e.start) and new Date(e.end) make of its timestamps.            *)

\* body.calendarEvents holds at most this many events
MaxPlannerEvents == 2

\* an event from one instant to another
PlannerEvent(from, to) == [start |-> from, end |-> to]

\* events of the reference week: Monday 09:15-09:45, 10:15-10:45 and
\* 08:00-09:30, Tuesday 13:00-14:00 and 12:00-13:00, Wednesday 17:30-18:30
\* and 14:00-15:30
PlannerEventPool ==
  { PlannerEvent(9 * 60 + 15, 9 * 60 + 45),
    PlannerEvent(10 * 60 + 15, 10 * 60 + 45),
    PlannerEvent(8 * 60, 9 * 60 + 30),
    PlannerEvent(1440 + 13 * 60, 1440 + 14 * 60),
    PlannerEvent(1440 + 12 * 60, 1440 + 13 * 60),
    PlannerEvent(2 * 1440 + 17 * 60 + 30, 2 * 1440 + 18 * 60 + 30),
    PlannerEvent(2 * 1440 + 14 * 60, 2 * 1440 + 15 * 60 + 30) }

\* the instants at which the route runs: Monday 08:00 and Tuesday 20:00
PlannerInstants == { 8 * 60, 1440 + 20 * 60 }

\* "Analyze calendar to find free slots": the hours and the day of an event
BusySlot(e) ==
  [startHour |-> GetHours(e.start), endHour |-> GetHours(e.end), date |-> DayOf(e.start)]

\* "Check common time blocks"
timeBlocks ==
  << [name |-> "morning", start |-> 9, end |-> 12],
     [name |-> "afternoon", start |-> 13, end |-> 17],
     [name |-> "evening", start |-> 18, end |-> 21] >>

\* the conflict test of a block with the events of a day
BlockHasConflict(dayEvents, block) ==
  \E j \in 1..Len(dayEvents) :
    dayEvents[j].startHour < block.end /\ dayEvents[j].endHour > block.start

\* the blocks of day i after `date`, in the order of timeBlocks, that have no
\* conflict with the events of that day
FreeBlocksOfDay(events, date, i) ==
  LET checkDate == DayOf(SetDate(date, i))
      busySlots == [j \in 1..Len(events) |-> BusySlot(events[j])]
      dayEvents == SelectSeq(busySlots, LAMBDA e : e.date = checkDate)
      labelled  == [k \in 1..Len(timeBlocks) |->
                      [day |-> checkDate, name |-> timeBlocks[k].name,
                       start |-> timeBlocks[k].start, end |-> timeBlocks[k].end]]
  IN SelectSeq(labelled, LAMBDA block : ~BlockHasConflict(dayEvents, block))

\* "Find free time slots for the next 7 days": days i = 0 .. 6
RECURSIVE FreeSlots(_, _, _)
FreeSlots(events, date, i) ==
  IF i >= 7 THEN <<>>
  ELSE FreeBlocksOfDay(events, date, i) \o FreeSlots(events, date, i + 1)

InitPlanner ==
  /\ MeetingIdle
  /\ ScheduleIdle /\ SmsIdle /\ ChatIdle /\ TelegramIdle
  /\ DataIdle
  /\ projectPc = "request"
  /\ plannerEvents \in SeqsUpTo(PlannerEventPool, MaxPlannerEvents)
  /\ freeSlots = <<>>

\* POST of the project-creator route, up to the prompt
projectPOST ==
  /\ projectPc = "request"
  /\ \E date \in PlannerInstants :
       /\ now' = date
       /\ freeSlots' = FreeSlots(plannerEvents, date, 0)
  /\ projectPc' = "prompt"
  /\ UNCHANGED <<step, form, suggestedSlots, calendarEvents, plannerEvents>>
  /\ UNCHANGED <<scheduleVars, smsVars, chatVars, telegramVars>>
  /\ UNCHANGED dataVars

SpecPlanner == InitPlanner /\ [][projectPOST]_vars

\* the event and the block of the slot have an instant in common
EventOverlapsSlot(e, slot) ==
  /\ e.start < slot.day * 1440 + slot.end * 60
  /\ e.end > slot.day * 1440 + slot.start * 60

\* C18: a block is listed as a free slot only if no event of that day
\* overlaps the time range of the block, events inside one clock hour included.
C18_FreeSlotHasNoOverlap ==
  projectPc = "prompt" =>
    \A i \in 1..Len(freeSlots) :
      \A j \in 1..Len(plannerEvents) :
        DayOf(plannerEvents[j].start) = freeSlots[i].day
          => ~EventOverlapsSlot(plannerEvents[j], freeSlots[i])

----------------------------------------------------------------------------
(* AIChat: the confirmation of the actions the assistant proposes          *)
(*                                                                          *)
(* A text is a sequence of characters.  The texts of the assistant are cut  *)
(* to their first words.                                                    *)

\* handleSend is run at most this many times
MaxSends == 2

UpperCase ==
  <<"A", "B", "C", "D", "E", "F", "G", "H", "I", "J", "K", "L", "M",
    "N", "O", "P", "Q", "R", "S", "T", "U", "V", "W", "X", "Y", "Z">>

LowerCase ==
  <<"a", "b", "c", "d", "e", "f", "g", "h", "i", "j", "k", "l", "m",
    "n", "o", "p", "q", "r", "s", "t", "u", "v", "w", "x", "y", "z">>

\* String.toLowerCase()
ToLowerCase(text) ==
  [ i \in 1..Len(text) |->
      IF \E k \in 1..Len(UpperCase) : UpperCase[k] = text[i]
        THEN LowerCase[CHOOSE k \in 1..Len(UpperCase) : UpperCase[k] = text[i]]
      ELSE text[i] ]

\* String.trim()
RECURSIVE Trim(_)
Trim(text) ==
  IF text = <<>> THEN <<>>
  ELSE IF Head(text) = " " THEN Trim(Tail(text))
  ELSE IF text[Len(text)] = " " THEN Trim(SubSeq(text, 1, Len(text) - 1))
  ELSE text

\* String.includes()
IncludesText(text, part) ==
  \E i \in 0..(Len(text) - Len(part)) : SubSeq(text, i + 1, i + Len(part)) = part

\* the words of /^(yes|yeah|...|go for it)$/i
ConfirmWords ==
  { <<"y", "e", "s">>,
    <<"y", "e", "a", "h">>,
    <<"y", "e", "p">>,
    <<"s", "u", "r", "e">>,
    <<"o", "k">>,
    <<"o", "k", "a", "y">>,
    <<"d", "o", " ", "i", "t">>,
    <<"c", "o", "n", "f", "i", "r", "m">>,
    <<"g", "o", " ", "a", "h", "e", "a", "d">>,
    <<"y", "u", "p">>,
    <<"p", "l", "e", "a", "s", "e">>,
    <<"s", "o", "u", "n", "d", "s", " ", "g", "o", "o", "d">>,
    <<"p", "e", "r", "f", "e", "c", "t">>,
    <<"l", "e", "t", "'", "s", " ", "d", "o", " ", "i", "t">>,
    <<"g", "o", " ", "f", "o", "r", " ", "i", "t">> }

\* the words of /^(no|nope|...|wait)$/i
CancelWords ==
  { <<"n", "o">>,
    <<"n", "o", "p", "e">>,
    <<"c", "a", "n", "c", "e", "l">>,
    <<"n", "e", "v", "e", "r", "m", "i", "n", "d">>,
    <<"n", "a", "h">>,
    <<"d", "o", "n", "'", "t">>,
    <<"s", "t", "o", "p">>,
    <<"w", "a", "i", "t">> }

\* isConfirm = /^(...)$/i.test(lowerMessage) ||
\*             lowerMessage.includes('yes') && lowerMessage.length < 20
IsConfirm(lowerMessage) ==
  \/ lowerMessage \in ConfirmWords
  \/ (IncludesText(lowerMessage, <<"y", "e", "s">>) /\ Len(lowerMessage) < 20)

\* isCancel = /^(...)$/i.test(lowerMessage) ||
\*            lowerMessage.includes('no') && lowerMessage.length < 15
IsCancel(lowerMessage) ==
  \/ lowerMessage \in CancelWords
  \/ (IncludesText(lowerMessage, <<"n", "o">>) /\ Len(lowerMessage) < 15)

\* handleSend that takes for a confirmation whatever is not a cancel
RecognisedUnlessCancel(pending, lowerMessage) ==
  IF pending = NoAction THEN "message"
  ELSE IF IsCancel(lowerMessage) THEN "cancel"
  ELSE "confirm"

\* "Handle confirmation of pending action": what handleSend takes the
\* message for
Recognised(pending, lowerMessage) ==
  IF pending = NoAction THEN "message"
  ELSE IF IsConfirm(lowerMessage) THEN "confirm"
  ELSE IF IsCancel(lowerMessage) THEN "cancel"
  ELSE "message"

\* what the user types: "ok", "Yes please", "nope", "not now", "no yes",
\* "move it to 3pm", "yes but make it 30 minutes", blanks, " go ahead "
UserInputs ==
  { <<"o", "k">>,
    <<"Y", "e", "s", " ", "p", "l", "e", "a", "s", "e">>,
    <<"n", "o", "p", "e">>,
    <<"n", "o", "t", " ", "n", "o", "w">>,
    <<"n", "o", " ", "y", "e", "s">>,
    <<"m", "o", "v", "e", " ", "i", "t", " ", "t", "o", " ", "3", "p", "m">>,
    <<"y", "e", "s", " ", "b", "u", "t", " ", "m", "a", "k", "e", " ", "i", "t", " ", "3", "0", " ", "m", "i", "n", "u", "t", "e", "s">>,
    <<" ", " ">>,
    <<" ", "g", "o", " ", "a", "h", "e", "a", "d", " ">> }

\* the types of the actions the assistant proposes; executeAction knows the
\* first two and sends nothing for the third
ActionTypes == {"ADD_EVENT", "REMOVE_EVENT", "SHOW_CALENDAR"}

\* the texts of the assistant
Done == <<"D", "o", "n", "e", "!">>

DidNotWork == <<"H", "m", "m">>

Cancelled == <<"N", "o", " ", "p", "r", "o", "b", "l", "e", "m">>

Reply == <<"S", "u", "r", "e">>

Trouble == <<"S", "o", "r", "r", "y">>

ConnectionIssue == <<"C", "o", "n", "n", "e", "c", "t", "i", "o", "n", " ", "i", "s", "s", "u", "e">>

UserSays(text) == [role |-> "user", content |-> text]

AssistantSays(text) == [role |-> "assistant", content |-> text]

\* the number of messages of the user in the conversation
Sends == Cardinality({ i \in 1..Len(messages) : messages[i].role = "user" })

InitChat ==
  /\ MeetingIdle
  /\ ScheduleIdle /\ SmsIdle /\ PlannerIdle /\ TelegramIdle
  /\ DataIdle
  /\ input = <<>>
  /\ loading = FALSE
  /\ pendingAction = NoAction
  /\ messages = <<Greeting>>
  /\ userMessage = <<>>
  /\ awaiting = "nothing"
  /\ providerToken \in BOOLEAN
  /\ executed = <<>>
  /\ proposed = 0

\* the user types into the input, which is disabled while loading
setInput ==
  /\ ~loading
  /\ \E text \in UserInputs : input' = text
  /\ UNCHANGED <<loading, pendingAction, messages, userMessage, awaiting,
                 providerToken, executed, proposed>>
  /\ UNCHANGED <<meetingVars, scheduleVars, smsVars, plannerVars, telegramVars>>
  /\ UNCHANGED dataVars

\* handleSend up to its first await: Enter or the send button
handleSend ==
  /\ Trim(input) # <<>> /\ ~loading
  /\ Sends < MaxSends
  /\ LET lowerMessage == ToLowerCase(Trim(input))
     IN /\ userMessage' = Trim(input)
        /\ input' = <<>>
        /\ IF Recognised(pendingAction, lowerMessage) = "confirm"
             THEN /\ messages' = Append(messages, UserSays(Trim(input)))
                  /\ loading' = TRUE
                  /\ awaiting' = "executeAction"
                  /\ UNCHANGED pendingAction
           ELSE IF Recognised(pendingAction, lowerMessage) = "cancel"
             THEN /\ pendingAction' = NoAction
                  /\ messages' = messages \o <<UserSays(Trim(input)), AssistantSays(Cancelled)>>
                  /\ loading' = FALSE
                  /\ awaiting' = "nothing"
           ELSE /\ pendingAction' = NoAction
                /\ messages' = Append(messages, UserSays(Trim(input)))
                /\ loading' = TRUE
                /\ awaiting' = "fetch"
  /\ UNCHANGED <<providerToken, executed, proposed>>
  /\ UNCHANGED <<meetingVars, scheduleVars, smsVars, plannerVars, telegramVars>>
  /\ UNCHANGED dataVars

\* executeAction returns to handleSend: without a token, or for a type it
\* does not know, nothing was sent; otherwise the request of the action was
\* sent to the calendar, which accepted or refused it
executeAction ==
  /\ awaiting = "executeAction"
  /\ \E ok \in BOOLEAN :
       LET sent    == providerToken /\ pendingAction.type \in {"ADD_EVENT", "REMOVE_EVENT"}
           success == sent /\ ok
       IN /\ executed' = IF sent THEN Append(executed, pendingAction) ELSE executed
          /\ messages' = Append(messages, AssistantSays(IF success THEN Done ELSE DidNotWork))
  /\ pendingAction' = NoAction
  /\ loading' = FALSE
  /\ awaiting' = "nothing"
  /\ UNCHANGED <<input, userMessage, providerToken, proposed>>
  /\ UNCHANGED <<meetingVars, scheduleVars, smsVars, plannerVars, telegramVars>>
  /\ UNCHANGED dataVars

\* the answer of /api/chat reaches handleSend: a message with or without an
\* action, an error, or no answer at all
chatResponse ==
  /\ awaiting = "fetch"
  /\ \/ \E type \in ActionTypes :
          /\ messages' = Append(messages, AssistantSays(Reply))
          /\ pendingAction' = [id |-> proposed + 1, type |-> type]
          /\ proposed' = proposed + 1
     \/ /\ messages' = Append(messages, AssistantSays(Reply))
        /\ UNCHANGED <<pendingAction, proposed>>
     \/ /\ messages' = Append(messages, AssistantSays(Trouble))
        /\ UNCHANGED <<pendingAction, proposed>>
     \/ /\ messages' = Append(messages, AssistantSays(ConnectionIssue))
        /\ UNCHANGED <<pendingAction, proposed>>
  /\ loading' = FALSE
  /\ awaiting' = "nothing"
  /\ UNCHANGED <<input, userMessage, providerToken, executed>>
  /\ UNCHANGED <<meetingVars, scheduleVars, smsVars, plannerVars, telegramVars>>
  /\ UNCHANGED dataVars

NextChat ==
  \/ setInput
  \/ handleSend
  \/ executeAction
  \/ chatResponse

SpecChat == InitChat /\ [][NextChat]_vars

\* a step of handleSend that takes a message while an action is pending
SendsWhilePending ==
  /\ awaiting = "nothing" /\ pendingAction # NoAction
  /\ userMessage' = Trim(input)
  /\ Sends' = Sends + 1

\* C19: an action is sent to the calendar only by the handling of a message
\* recognised as a confirmation, and it is the action that was pending; a
\* message that is not recognised as a confirmation (a cancel or any other
\* message) clears the pending action and sends nothing; no action is sent
\* twice.
C19_ExecutedOnlyOnConfirmation ==
  /\ [](\A i \in 1..Len(executed), j \in 1..Len(executed) :
          i # j => executed[i].id # executed[j].id)
  /\ [][ /\ executed' # executed =>
              /\ awaiting = "executeAction"
              /\ IsConfirm(ToLowerCase(userMessage))
              /\ pendingAction # NoAction
              /\ executed' = Append(executed, pendingAction)
              /\ pendingAction' = NoAction
         /\ (SendsWhilePending /\ ~IsConfirm(ToLowerCase(userMessage'))) =>
              /\ pendingAction' = NoAction
              /\ executed' = executed
              /\ awaiting' # "executeAction" ]_vars

\* an action was proposed, confirmed and sent to the calendar
C19_Witness ==
  /\ Len(executed) = 1
  /\ pendingAction = NoAction
  /\ awaiting = "nothing"
  /\ IsConfirm(ToLowerCase(userMessage))

----------------------------------------------------------------------------
(* Telegram linking: generateLink of the dashboard and '/start <code>' of   *)
(* the webhook.  Texts and codes are sequences of characters; <<>> is null. *)
(* Of a row of user_preferences only connection_code and telegram_chat_id   *)
(* are kept.                                                                *)

\* generateLink is run at most this many times
MaxLinks == 2

\* the webhook answers at most this many updates
MaxReplies == 2

\* String.startsWith()
StartsWith(text, prefix) ==
  Len(text) >= Len(prefix) /\ SubSeq(text, 1, Len(prefix)) = prefix

\* String.split(' ')
RECURSIVE Split(_, _)
Split(text, piece) ==
  IF text = <<>> THEN <<piece>>
  ELSE IF Head(text) = " " THEN <<piece>> \o Split(Tail(text), <<>>)
  ELSE Split(Tail(text), Append(piece, Head(text)))

\* text.split(' ')[1], <<>> when there is no second piece
SecondPiece(text) ==
  LET pieces == Split(text, <<>>)
  IN IF Len(pieces) >= 2 THEN pieces[2] ELSE <<>>

\* '/start ' and 'alfred-'
StartSpace == <<"/", "s", "t", "a", "r", "t", " ">>

AlfredPrefix == <<"a", "l", "f", "r", "e", "d", "-">>

\* `alfred-${Math.random().toString(36).substring(2, 8)}`: two of the codes
Codes ==
  { <<"a", "l", "f", "r", "e", "d", "-", "k", "3", "f", "9", "x", "2">>,
    <<"a", "l", "f", "r", "e", "d", "-", "8", "h", "q", "2", "m", "z">> }

\* what a chat sends: '/start <code>' for the two codes, '/start',
\* '/start hello' and 'hi'
Texts ==
  { <<"/", "s", "t", "a", "r", "t", " ", "a", "l", "f", "r", "e", "d", "-", "k", "3", "f", "9", "x", "2">>,
    <<"/", "s", "t", "a", "r", "t", " ", "a", "l", "f", "r", "e", "d", "-", "8", "h", "q", "2", "m", "z">>,
    <<"/", "s", "t", "a", "r", "t">>,
    <<"/", "s", "t", "a", "r", "t", " ", "h", "e", "l", "l", "o">>,
    <<"h", "i">> }

\* .eq('connection_code', code).single(): the user of the only row that
\* holds the code, "" when no row or more than one row holds it
SingleByCode(table, code) ==
  LET rows == { u \in Users : table[u].connection_code = code }
  IN IF Cardinality(rows) = 1 THEN CHOOSE u \in rows : TRUE ELSE ""

\* .eq('telegram_chat_id', chatId).single()
SingleByChat(table, chatId) ==
  LET rows == { u \in Users : table[u].telegram_chat_id = chatId }
  IN IF Cardinality(rows) = 1 THEN CHOOSE u \in rows : TRUE ELSE ""

\* a reply of the bot to a chat; code is the code of the '/start' it answers
TelegramReply(chatId, text, code) == [chatId |-> chatId, text |-> text, code |-> code]

InitTelegram ==
  /\ MeetingIdle
  /\ ScheduleIdle /\ SmsIdle /\ PlannerIdle /\ ChatIdle
  /\ DataIdle
  /\ TelegramIdle

\* generateLink of a signed-in user: a new code is stored in the user's row
generateLink ==
  /\ issued < MaxLinks
  /\ \E u \in Users, uniqueCode \in Codes :
       user_preferences' = [user_preferences EXCEPT ![u].connection_code = uniqueCode]
  /\ issued' = issued + 1
  /\ UNCHANGED <<updates, telegramReplies>>
  /\ UNCHANGED <<meetingVars, scheduleVars, smsVars, plannerVars, chatVars>>
  /\ UNCHANGED dataVars

\* handleDisconnect of a linked user: the chat is removed and a new code made
handleDisconnect ==
  /\ issued < MaxLinks
  /\ \E u \in Users, uniqueCode \in Codes :
       /\ user_preferences[u].telegram_chat_id # ""
       /\ user_preferences' =
            [user_preferences EXCEPT ![u] =
               [connection_code |-> uniqueCode, telegram_chat_id |-> ""]]
  /\ issued' = issued + 1
  /\ UNCHANGED <<updates, telegramReplies>>
  /\ UNCHANGED <<meetingVars, scheduleVars, smsVars, plannerVars, chatVars>>
  /\ UNCHANGED dataVars

\* POST of the webhook for a message of a chat, up to the answer of its
\* first query.  '/start <code>' looks the code up and goes on in
\* telegramLink; '/start' is greeted; any other text is answered according
\* to whether the chat is linked
telegramPOST ==
  /\ Len(telegramReplies) < MaxReplies
  /\ \E chatId \in Chats, text \in Texts :
       /\ updates[chatId].pc = "idle"
       /\ LET code == SecondPiece(text)
          IN IF StartsWith(text, StartSpace) /\ code # <<>> /\ StartsWith(code, AlfredPrefix)
               THEN /\ updates' =
                         [updates EXCEPT ![chatId] =
                            [pc |-> "selected", code |-> code,
                             userPref |-> SingleByCode(user_preferences, code)]]
                    /\ UNCHANGED telegramReplies
             ELSE IF text = SubSeq(StartSpace, 1, Len(StartSpace) - 1)
               THEN /\ telegramReplies' =
                         Append(telegramReplies, TelegramReply(chatId, "Hello", <<>>))
                    /\ UNCHANGED updates
             ELSE IF SingleByChat(user_preferences, chatId) = ""
               THEN /\ telegramReplies' =
                         Append(telegramReplies, TelegramReply(chatId, "Not linked yet", <<>>))
                    /\ UNCHANGED updates
             ELSE /\ telegramReplies' =
                       Append(telegramReplies, TelegramReply(chatId, "Conversation", <<>>))
                  /\ UNCHANGED updates
  /\ UNCHANGED <<user_preferences, issued>>
  /\ UNCHANGED <<meetingVars, scheduleVars, smsVars, plannerVars, chatVars>>
  /\ UNCHANGED dataVars

\* the rest of '/start <code>': the row that was found is given the chat and
\* loses its code, and the chat is told so; when no row was found the chat
\* is told that the link failed
telegramLink ==
  /\ \E chatId \in Chats :
       /\ updates[chatId].pc = "selected"
       /\ IF updates[chatId].userPref # ""
            THEN /\ user_preferences' =
                      [user_preferences EXCEPT ![updates[chatId].userPref] =
                         [connection_code |-> <<>>, telegram_chat_id |-> chatId]]
                 /\ telegramReplies' =
                      Append(telegramReplies,
                             TelegramReply(chatId, "Connection Successful", updates[chatId].code))
          ELSE /\ telegramReplies' =
                    Append(telegramReplies,
                           TelegramReply(chatId, "Link Failed", updates[chatId].code))
               /\ UNCHANGED user_preferences
       /\ updates' = [updates EXCEPT ![chatId] = NoUpdate]
  /\ UNCHANGED issued
  /\ UNCHANGED <<meetingVars, scheduleVars, smsVars, plannerVars, chatVars>>
  /\ UNCHANGED dataVars

NextTelegram ==
  \/ generateLink
  \/ handleDisconnect
  \/ telegramPOST
  \/ telegramLink

SpecTelegram == InitTelegram /\ [][NextTelegram]_vars

\* a '/start' with the code has linked a chat
HasLinked(code) ==
  \E i \in 1..Len(telegramReplies) :
    telegramReplies[i].text = "Connection Successful" /\ telegramReplies[i].code = code

\* the chats of the accounts
ChatIds == [u \in Users |-> user_preferences[u].telegram_chat_id]

\* C20: a connection code is single-use.  Once a '/start <code>' has linked
\* a chat, every '/start' with that code answered afterwards is answered
\* 'Link Failed' and changes the telegram_chat_id of no account.
C20_CodeIsSingleUse ==
  [][ \A chatId \in Chats :
        ( /\ updates[chatId].pc = "selected"
          /\ updates'[chatId].pc = "idle"
          /\ HasLinked(updates[chatId].code) )
        => /\ telegramReplies' =
                Append(telegramReplies,
                       TelegramReply(chatId, "Link Failed", updates[chatId].code))
           /\ ChatIds' = ChatIds ]_vars

\* C25: after '/start <code>' has linked a chat to an account, an ordinary
\* message of the chat is handled as that account: the lookup of the chat
\* (.eq('telegram_chat_id', chatId).single()) made right after the link
\* finds the account that was linked, whatever the chat was linked to before.
C25_LinkedChatIsHandledAsUser ==
  [][ \A chatId \in Chats :
        ( /\ updates[chatId].pc = "selected"
          /\ updates'[chatId].pc = "idle"
          /\ updates[chatId].userPref # "" )
        => SingleByChat(user_preferences', chatId) = updates[chatId].userPref ]_vars

----------------------------------------------------------------------------
(* The rescue cron.  Instants are minutes.  A nullable timestamp is <<>>    *)
(* for null and <<t>> for the instant t.  Of a row of scheduled_blocks only *)
(* user_id, title, start_time, status, reminder_sent and                    *)
(* missed_notification_sent are kept; in this part a row of                 *)
(* user_preferences holds the columns the rescue cron reads and writes.     *)

\* the rows of scheduled_blocks at the start are at most this many
MaxRescueBlocks == 2

Hour == 60

\* a row of scheduled_blocks as schedule_block inserts it
ScheduledBlock(userId, title, startTime) ==
  [ user_id |-> userId, title |-> title, start_time |-> startTime,
    status |-> "scheduled", reminder_sent |-> FALSE,
    missed_notification_sent |-> FALSE ]

\* rescueMessages, each by the sentence that tells what was done
rescueMessages ==
  << "I've moved your tasks to tomorrow.",
     "I've rescheduled today's blocks to give you breathing room.",
     "Taking today off your plate." >>

\* the order in which a query returns the rows of user_preferences
UserOrder == <<"u1", "u2">>

\* .eq('sms_enabled', true).lt('last_interaction', twoHoursAgo)
\* .gt('unresponsive_count', 1).eq('rescue_mode', false)
Unresponsive(row, date) ==
  /\ row.sms_enabled
  /\ row.last_interaction # <<>>
  /\ row.last_interaction[1] < date - 2 * Hour
  /\ row.unresponsive_count > 1
  /\ ~row.rescue_mode

\* the scheduled blocks of a user that start from date on, up to hours later
ScheduledWithin(blocks, userId, date, hours) ==
  { i \in 1..Len(blocks) :
      /\ blocks[i].user_id = userId
      /\ blocks[i].status = "scheduled"
      /\ blocks[i].start_time >= date
      /\ blocks[i].start_time <= date + hours * Hour }

\* "Check if they have scheduled tasks today"
todayBlocks(blocks, userId, date) == ScheduledWithin(blocks, userId, date, 24)

\* "Mark blocks as rescheduled"
MarkRescheduled(blocks, userId, date) ==
  [ i \in 1..Len(blocks) |->
      IF i \in ScheduledWithin(blocks, userId, date, 12)
        THEN [blocks[i] EXCEPT !.status = "rescheduled"]
        ELSE blocks[i] ]

\* the loop over unresponsiveUsers: what the run leaves in scheduled_blocks,
\* user_preferences and the messages Twilio has sent.  pick[u] is the
\* message Math.random() picks for u, 0 when messages.create throws, which
\* ends the run in the catch
RECURSIVE RescueLoop(_, _, _, _, _, _, _)
RescueLoop(users, unresponsive, blocks, prefs, out, date, pick) ==
  IF users = <<>> THEN [blocks |-> blocks, prefs |-> prefs, out |-> out]
  ELSE LET u == Head(users)
       IN IF u \notin unresponsive \/ prefs[u].phone_number = ""
            THEN RescueLoop(Tail(users), unresponsive, blocks, prefs, out, date, pick)
          ELSE IF todayBlocks(blocks, u, date) = {}
            THEN RescueLoop(Tail(users), unresponsive, blocks, prefs, out, date, pick)
          ELSE IF pick[u] = 0
            THEN [blocks |-> blocks, prefs |-> prefs, out |-> out]
          ELSE RescueLoop(Tail(users), unresponsive,
                          MarkRescheduled(blocks, u, date),
                          [prefs EXCEPT ![u].rescue_mode = TRUE,
                                        ![u].unresponsive_count = 0],
                          Append(out, [to |-> prefs[u].phone_number,
                                       body |-> rescueMessages[pick[u]],
                                       by |-> "messages.create"]),
                          date, pick)

\* the rows of user_preferences the cron meets: an unresponsive user, one
\* without a phone, one who wrote an hour ago, one who never wrote, one
\* already in rescue mode and one with a single unanswered reminder
RescueRow(phone, enabled, last, count, mode) ==
  [ phone_number |-> phone, sms_enabled |-> enabled, last_interaction |-> last,
    unresponsive_count |-> count, rescue_mode |-> mode ]

RescueRows(phone) ==
  { RescueRow(phone, TRUE, <<-200>>, 2, FALSE),
    RescueRow("", TRUE, <<-200>>, 2, FALSE),
    RescueRow(phone, TRUE, <<-60>>, 2, FALSE),
    RescueRow(phone, TRUE, <<>>, 2, FALSE),
    RescueRow(phone, TRUE, <<-200>>, 3, TRUE),
    RescueRow(phone, TRUE, <<-200>>, 1, FALSE) }

PhoneOf == [u \in Users |-> IF u = "u1" THEN "+15550001" ELSE "+15550003"]

\* blocks that start 5, 18 and 30 hours after the reference instant
RescueBlockPool ==
  { ScheduledBlock(u, "Study", t) : u \in Users, t \in {5 * Hour, 18 * Hour, 30 * Hour} }

\* the instants at which the cron runs
RescueInstants == {0, 1 * Hour, 7 * Hour}

InitRescue ==
  /\ step = "form"
  /\ form = InitialForm
  /\ suggestedSlots = <<>>
  /\ calendarEvents = <<>>
  /\ now = -1
  /\ ScheduleIdle /\ SmsIdle /\ PlannerIdle /\ ChatIdle
  /\ user_preferences \in { p \in [Users -> UNION { RescueRows(PhoneOf[u]) : u \in Users }] :
                              \A u \in Users : p[u] \in RescueRows(PhoneOf[u]) }
  /\ updates = [c \in Chats |-> NoUpdate]
  /\ telegramReplies = <<>>
  /\ issued = 0
  /\ scheduled_blocks \in SeqsUpTo(RescueBlockPool, MaxRescueBlocks)
  /\ goals = <<>>
  /\ projects = <<>>
  /\ brain_dump = <<>>
  /\ telegramSent = <<>>
  /\ toolCall = NoToolCall
  /\ toolResult = <<>>

\* GET of the rescue cron with the right secret, at an instant after the
\* last run
rescueGET ==
  /\ \E date \in RescueInstants, pick \in [Users -> 0..Len(rescueMessages)] :
       /\ date > now
       /\ now' = date
       /\ LET unresponsiveUsers == { u \in Users : Unresponsive(user_preferences[u], date) }
              run == RescueLoop(UserOrder, unresponsiveUsers, scheduled_blocks,
                                user_preferences, outbound, date, pick)
          IN /\ scheduled_blocks' = run.blocks
             /\ user_preferences' = run.prefs
             /\ outbound' = run.out
  /\ UNCHANGED <<step, form, suggestedSlots, calendarEvents>>
  /\ UNCHANGED <<smsPc, inbound, brainResponse, sms_messages>>
  /\ UNCHANGED <<updates, telegramReplies, issued>>
  /\ UNCHANGED <<goals, projects, brain_dump, telegramSent, toolCall, toolResult>>
  /\ UNCHANGED <<scheduleVars, plannerVars, chatVars>>

SpecRescue == InitRescue /\ [][rescueGET]_vars

\* C21: whenever the rescue cron sends a user the rescue message, every
\* scheduled block of that user starting within the next 24 hours is marked
\* 'rescheduled': after the run the user has no block with status
\* 'scheduled' starting in that 24-hour window.
C21_RescuedDayIsCleared ==
  [][ \A u \in Users :
        ( \E i \in 1..Len(outbound') :
            /\ i > Len(outbound)
            /\ outbound'[i].to = user_preferences[u].phone_number
            /\ outbound'[i].body = rescueMessages[1] )
        => todayBlocks(scheduled_blocks', u, now') = {} ]_vars

----------------------------------------------------------------------------
(* The nudge cron.  In this part a row of user_preferences holds the        *)
(* columns the nudge cron reads and writes; a block that never had a        *)
(* reminder or a notice has reminder_sent and missed_notification_sent      *)
(* false.  A message of telegramSent carries the chat it was addressed to,  *)
(* the instant of the run that sent it and what it is about.                *)

\* the rows of scheduled_blocks at the start are at most this many
MaxNudgeBlocks == 2

\* process.env.TELEGRAM_USER_ID: the chat of the owner of the bot
DEFAULT_USER_ID == "c1"

\* the text of a reminder, a nudge or a missed-block notice: its kind, the
\* user it is computed for and the id of the block or goal it names
NudgeText(kind, userId, about) == [kind |-> kind, user_id |-> userId, about |-> about]

\* sendTelegramMessage(text, parseMode, chatId) at the instant date; chatId
\* is "" when the argument is left out
sendTelegramMessage(text, chatId, date) ==
  [ chat_id |-> IF chatId # "" THEN chatId ELSE DEFAULT_USER_ID,
    text |-> text, date |-> date ]

\* the members of a set of row ids, smallest first
RECURSIVE Ascending(_)
Ascending(ids) ==
  IF ids = {} THEN <<>>
  ELSE LET first == CHOOSE i \in ids : \A j \in ids : i <= j
       IN <<first>> \o Ascending(ids \ {first})

\* user.reminder_minutes || 10
reminderWindow(user) == IF user.reminder_minutes # 0 THEN user.reminder_minutes ELSE 10

\* the query of "REMINDERS" without .eq('reminder_sent', false)
upcomingAgain(blocks, userId, date, window) ==
  { i \in 1..Len(blocks) :
      /\ blocks[i].user_id = userId
      /\ blocks[i].start_time > date
      /\ blocks[i].start_time < date + window
      /\ blocks[i].status = "scheduled" }

\* "REMINDERS": the blocks of the user that are scheduled, without a
\* reminder, and start after now and before now + reminderWindow
upcoming(blocks, userId, date, window) ==
  { i \in 1..Len(blocks) :
      /\ blocks[i].user_id = userId
      /\ blocks[i].start_time > date
      /\ blocks[i].start_time < date + window
      /\ blocks[i].reminder_sent = FALSE
      /\ blocks[i].status = "scheduled" }

\* the scheduled blocks of the user that start within two hours from now
nextEvents(blocks, userId, date) ==
  { i \in 1..Len(blocks) :
      /\ blocks[i].user_id = userId
      /\ blocks[i].start_time > date
      /\ blocks[i].start_time < date + 2 * Hour
      /\ blocks[i].status = "scheduled" }

\* .eq('status', 'active').eq('priority', 'high').limit(1).single(): the id
\* of the first such goal of the user, 0 for null
topGoal(goalRows, userId) ==
  LET high == { g \in 1..Len(goalRows) :
                  /\ goalRows[g].user_id = userId
                  /\ goalRows[g].status = "active"
                  /\ goalRows[g].priority = "high" }
  IN IF high = {} THEN 0 ELSE Ascending(high)[1]

\* "MISSED BLOCK RESCUE": the blocks of the user that are scheduled, without
\* a notice, and started between two hours and thirty minutes ago
missedBlocks(blocks, userId, date) ==
  { i \in 1..Len(blocks) :
      /\ blocks[i].user_id = userId
      /\ blocks[i].start_time < date - 30
      /\ blocks[i].start_time > date - 2 * Hour
      /\ blocks[i].status = "scheduled"
      /\ blocks[i].missed_notification_sent = FALSE }

\* the messages of one loop over blocks, in the order of the loop
BlockMessages(kind, userId, ids, date) ==
  [ k \in 1..Len(Ascending(ids)) |->
      sendTelegramMessage(NudgeText(kind, userId, Ascending(ids)[k]), "", date) ]

\* one turn of "for (const user of users)": what it leaves in
\* scheduled_blocks, user_preferences and telegramSent.  lucky tells whether
\* Math.random() < 0.2
NudgeUser(u, user, st, goalRows, date, lucky) ==
  LET reminded == upcoming(st.blocks, u, date, reminderWindow(user))
      blocks1 == [ i \in 1..Len(st.blocks) |->
                     IF i \in reminded
                       THEN [st.blocks[i] EXCEPT !.reminder_sent = TRUE]
                       ELSE st.blocks[i] ]
      sent1 == st.sent \o BlockMessages("reminder", u, reminded, date)
      free == nextEvents(blocks1, u, date) = {}
      due == user.last_nudge_at = <<>> \/ user.last_nudge_at[1] < date - 2 * Hour
      goal == topGoal(goalRows, u)
      nudged == free /\ due /\ lucky /\ goal # 0
      sent2 == IF nudged
                 THEN Append(sent1, sendTelegramMessage(NudgeText("nudge", u, goal), "", date))
                 ELSE sent1
      prefs2 == IF nudged
                  THEN [st.prefs EXCEPT ![u].last_nudge_at = <<date>>]
                  ELSE st.prefs
      missed == missedBlocks(blocks1, u, date)
      blocks3 == [ i \in 1..Len(blocks1) |->
                     IF i \in missed
                       THEN [blocks1[i] EXCEPT !.missed_notification_sent = TRUE]
                       ELSE blocks1[i] ]
      sent3 == sent2 \o BlockMessages("missed", u, missed, date)
  IN IF ~user.nudges_enabled
       THEN [blocks |-> blocks1, prefs |-> st.prefs, sent |-> sent1]
       ELSE [blocks |-> blocks3, prefs |-> prefs2, sent |-> sent3]

\* the loop over the users with a linked chat, as they were read at the
\* start of the run
RECURSIVE NudgeLoop(_, _, _, _, _, _)
NudgeLoop(users, rows, st, goalRows, date, lucky) ==
  IF users = <<>> THEN st
  ELSE LET u == Head(users)
       IN IF rows[u].telegram_chat_id = ""
            THEN NudgeLoop(Tail(users), rows, st, goalRows, date, lucky)
            ELSE NudgeLoop(Tail(users), rows,
                           NudgeUser(u, rows[u], st, goalRows, date, lucky[u]),
                           goalRows, date, lucky)

NudgeRow(chat, enabled, minutes) ==
  [ telegram_chat_id |-> chat, last_nudge_at |-> <<>>, nudges_enabled |-> enabled,
    reminder_minutes |-> minutes ]

\* u1 is linked to c1 and u2, when linked, to c2
NudgeRows ==
  { p \in [Users -> { NudgeRow(c, e, m) : c \in Chats \cup {""}, e \in BOOLEAN, m \in {0, 30} }] :
      /\ p["u1"].telegram_chat_id = "c1"
      /\ p["u2"].telegram_chat_id \in {"c2", ""}
      /\ p["u2"].reminder_minutes = 0 }

\* blocks that start 8 and 25 minutes after the first run
NudgeBlockPool == { ScheduledBlock(u, "Study", t) : u \in Users, t \in {8, 25} }

\* a row of goals as create_goal inserts it
Goal(userId, title, priority) ==
  [ user_id |-> userId, title |-> title, hours_completed |-> 0,
    priority |-> priority, status |-> "active" ]

GoalLists ==
  { <<>>, <<Goal("u1", "Thesis", "high")>>,
    <<Goal("u2", "Run", "medium"), Goal("u2", "Thesis", "high")>> }

\* the instants at which the cron runs
NudgeInstants == {0, 5, 45, 60}

InitNudge ==
  /\ step = "form"
  /\ form = InitialForm
  /\ suggestedSlots = <<>>
  /\ calendarEvents = <<>>
  /\ now = -1
  /\ ScheduleIdle /\ SmsIdle /\ PlannerIdle /\ ChatIdle
  /\ user_preferences \in NudgeRows
  /\ updates = [c \in Chats |-> NoUpdate]
  /\ telegramReplies = <<>>
  /\ issued = 0
  /\ scheduled_blocks \in SeqsUpTo(NudgeBlockPool, MaxNudgeBlocks)
  /\ goals \in GoalLists
  /\ projects = <<>>
  /\ brain_dump = <<>>
  /\ telegramSent = <<>>
  /\ toolCall = NoToolCall
  /\ toolResult = <<>>

\* GET of the nudge cron with the right secret, at an instant after the
\* last run; the run ends before the next one starts
nudgeGET ==
  /\ \E date \in NudgeInstants, lucky \in [Users -> BOOLEAN] :
       /\ date > now
       /\ now' = date
       /\ LET run == NudgeLoop(UserOrder, user_preferences,
                               [blocks |-> scheduled_blocks, prefs |-> user_preferences,
                                sent |-> telegramSent],
                               goals, date, lucky)
          IN /\ scheduled_blocks' = run.blocks
             /\ user_preferences' = run.prefs
             /\ telegramSent' = run.sent
  /\ UNCHANGED <<step, form, suggestedSlots, calendarEvents>>
  /\ UNCHANGED <<updates, telegramReplies, issued>>
  /\ UNCHANGED <<goals, projects, brain_dump, toolCall, toolResult>>
  /\ UNCHANGED <<scheduleVars, smsVars, plannerVars, chatVars>>

SpecNudge == InitNudge /\ [][nudgeGET]_vars

\* the messages of a kind sent about a block
SentAbout(kind, id) ==
  { k \in 1..Len(telegramSent) :
      telegramSent[k].text.kind = kind /\ telegramSent[k].text.about = id }

\* C22: across runs of the nudge cron that do not overlap and whose updates
\* succeed, a block is sent a reminder at most once and a missed-block
\* notice at most once: once reminder_sent (missed_notification_sent) is
\* set for the block, no later run sends that message again.
C22_NotifiedAtMostOnce ==
  /\ [](\A id \in 1..Len(scheduled_blocks), kind \in {"reminder", "missed"} :
          Cardinality(SentAbout(kind, id)) <= 1)
  /\ [][ \A id \in 1..Len(scheduled_blocks), k \in 1..Len(telegramSent') :
           ( /\ k > Len(telegramSent)
             /\ telegramSent'[k].text.about = id )
           => /\ telegramSent'[k].text.kind = "reminder" => ~scheduled_blocks[id].reminder_sent
              /\ telegramSent'[k].text.kind = "missed" =>
                   ~scheduled_blocks[id].missed_notification_sent ]_vars

\* a block that starts at 8 was reminded of by the run at 0 and noticed as
\* missed by the run at 45; the run at 60, for which the block is still
\* among those started between two hours and thirty minutes ago, has ended
C22_Witness ==
  /\ now = 60
  /\ \E id \in 1..Len(scheduled_blocks) :
       /\ scheduled_blocks[id].start_time = 8
       /\ scheduled_blocks[id].status = "scheduled"
       /\ \E k \in SentAbout("reminder", id) : telegramSent[k].date = 0
       /\ \E k \in SentAbout("missed", id) : telegramSent[k].date = 45

\* C23: every reminder, nudge and missed-block message the nudge cron sends
\* about a user's block or goal is addressed to that user's own linked chat
\* (the user's telegram_chat_id) and to no other chat.
C23_SentToOwnChat ==
  \A k \in 1..Len(telegramSent) :
    telegramSent[k].chat_id = user_preferences[telegramSent[k].text.user_id].telegram_chat_id

\* the run that ends in this step has sent the missed-block notice about
\* the block
NoticedInStep(id) ==
  \E k \in 1..Len(telegramSent') :
    /\ k > Len(telegramSent)
    /\ telegramSent'[k].text.kind = "missed"
    /\ telegramSent'[k].text.about = id

\* C24: on each run of the nudge cron, for every user with a linked chat,
\* each block of the user with status 'scheduled', missed_notification_sent
\* false and a start between two hours and thirty minutes before now gets
\* the missed-block notice, whether or not the user has nudges_enabled.
C24_MissedBlocksAreNoticed ==
  [][ now' # now =>
        \A u \in Users, id \in 1..Len(scheduled_blocks) :
          ( /\ user_preferences[u].telegram_chat_id # ""
            /\ scheduled_blocks[id].user_id = u
            /\ scheduled_blocks[id].status = "scheduled"
            /\ ~scheduled_blocks[id].missed_notification_sent
            /\ scheduled_blocks[id].start_time < now' - 30
            /\ scheduled_blocks[id].start_time > now' - 2 * Hour )
          => NoticedInStep(id) ]_vars

----------------------------------------------------------------------------
(* The agent tools, as the Telegram webhook runs them for the function      *)
(* calls of one answer of the assistant.  Titles are sequences of           *)
(* characters.  toolCall holds the user the last tool ran for, its name and *)
(* its place among the calls; toolResult the rows its queries returned.     *)

\* an answer of the assistant makes at most this many function calls
MaxToolCalls == 2

\* .ilike('title', `%${title}%`)
ilike(text, part) == IncludesText(ToLowerCase(text), ToLowerCase(part))

Math == <<"M", "a", "t", "h">>

Gym == <<"G", "y", "m">>

Thesis == <<"T", "h", "e", "s", "i", "s">>

\* the titles the assistant passes: a title for a new row, parts of the
\* titles of existing rows, and <<>> for none
NewTitles == {Gym}

TitleParts == {<<>>, <<"m">>, <<"t", "h">>}

\* the instants the assistant passes as start_time, new_time and date
ToolInstants == {30, 300}

\* a row of projects as create_project inserts it
Project(userId, title) == [user_id |-> userId, title |-> title, status |-> "active"]

\* a row of brain_dump as log_brain_dump inserts it
BrainDump(userId, content) == [user_id |-> userId, content |-> content, source |-> "telegram"]

\* the rows a query returned, by table and id
Rows(table, ids) == [k \in 1..Len(ids) |-> [table |-> table, id |-> ids[k]]]

\* the call that follows toolCall
ToolCall(userId, name) == [userId |-> userId, name |-> name, index |-> toolCall.index + 1]

\* .order('start_time', { ascending: true }) of a set of blocks
RECURSIVE OrderByStart(_, _)
OrderByStart(blocks, ids) ==
  IF ids = {} THEN <<>>
  ELSE LET first == CHOOSE i \in ids :
                      \A j \in ids :
                        \/ blocks[i].start_time < blocks[j].start_time
                        \/ blocks[i].start_time = blocks[j].start_time /\ i <= j
       IN <<first>> \o OrderByStart(blocks, ids \ {first})

InitTools ==
  /\ step = "form"
  /\ form = InitialForm
  /\ suggestedSlots = <<>>
  /\ calendarEvents = <<>>
  /\ now = 100
  /\ ScheduleIdle /\ SmsIdle /\ PlannerIdle /\ ChatIdle /\ TelegramIdle
  /\ scheduled_blocks = <<ScheduledBlock("u1", Math, 60), ScheduledBlock("u2", Gym, 200)>>
  /\ goals = <<Goal("u1", Thesis, "high"), Goal("u2", Math, "medium")>>
  /\ projects = <<>>
  /\ brain_dump = <<>>
  /\ telegramSent = <<>>
  /\ toolCall = NoToolCall
  /\ toolResult = <<>>

create_project ==
  /\ toolCall.index < MaxToolCalls
  /\ \E userId \in Users, title \in NewTitles :
       /\ projects' = Append(projects, Project(userId, title))
       /\ toolCall' = ToolCall(userId, "create_project")
       /\ toolResult' = Rows("projects", <<Len(projects) + 1>>)
  /\ UNCHANGED <<scheduled_blocks, goals, brain_dump, telegramSent>>
  /\ UNCHANGED <<meetingVars, scheduleVars, smsVars, plannerVars, chatVars, telegramVars>>

create_goal ==
  /\ toolCall.index < MaxToolCalls
  /\ \E userId \in Users, title \in NewTitles, priority \in {"", "high"} :
       /\ goals' = Append(goals, Goal(userId, title,
                                      IF priority # "" THEN priority ELSE "medium"))
       /\ toolCall' = ToolCall(userId, "create_goal")
       /\ toolResult' = Rows("goals", <<Len(goals) + 1>>)
  /\ UNCHANGED <<scheduled_blocks, projects, brain_dump, telegramSent>>
  /\ UNCHANGED <<meetingVars, scheduleVars, smsVars, plannerVars, chatVars, telegramVars>>

schedule_block ==
  /\ toolCall.index < MaxToolCalls
  /\ \E userId \in Users, title \in NewTitles, startTime \in ToolInstants :
       /\ scheduled_blocks' = Append(scheduled_blocks, ScheduledBlock(userId, title, startTime))
       /\ toolCall' = ToolCall(userId, "schedule_block")
       /\ toolResult' = Rows("scheduled_blocks", <<Len(scheduled_blocks) + 1>>)
  /\ UNCHANGED <<goals, projects, brain_dump, telegramSent>>
  /\ UNCHANGED <<meetingVars, scheduleVars, smsVars, plannerVars, chatVars, telegramVars>>

\* the scheduled blocks of the user whose title holds the part
BlocksByTitle(blocks, userId, title) ==
  { i \in 1..Len(blocks) :
      /\ blocks[i].user_id = userId
      /\ ilike(blocks[i].title, title)
      /\ blocks[i].status = "scheduled" }

\* .update({ start_time, end_time }).eq('id', blockId)
UpdateStart(blocks, blockId, newStart) ==
  [ i \in 1..Len(blocks) |->
      IF i = blockId THEN [blocks[i] EXCEPT !.start_time = newStart] ELSE blocks[i] ]

\* reschedule_block; block_id 0 and title <<>> stand for an argument left
\* out, found for the row .limit(1) returns, 0 when it returns none
reschedule_block ==
  /\ toolCall.index < MaxToolCalls
  /\ \E userId \in Users, block_id \in 0..(Len(scheduled_blocks) + 1),
        title \in TitleParts, new_time \in ToolInstants :
       LET search == block_id = 0 /\ title # <<>>
           matches == IF search THEN BlocksByTitle(scheduled_blocks, userId, title) ELSE {}
       IN \E found \in IF matches = {} THEN {0} ELSE matches :
            LET blockId == IF block_id # 0 THEN block_id ELSE found
            IN /\ scheduled_blocks' =
                    IF blockId = 0 THEN scheduled_blocks
                    ELSE UpdateStart(scheduled_blocks, blockId, new_time)
               /\ toolCall' = ToolCall(userId, "reschedule_block")
               /\ toolResult' = IF found = 0 THEN <<>>
                                ELSE Rows("scheduled_blocks", <<found>>)
  /\ UNCHANGED <<goals, projects, brain_dump, telegramSent>>
  /\ UNCHANGED <<meetingVars, scheduleVars, smsVars, plannerVars, chatVars, telegramVars>>

get_schedule ==
  /\ toolCall.index < MaxToolCalls
  /\ \E userId \in Users, date \in ToolInstants :
       LET startOfDay == DayOf(date) * 1440
           data == { i \in 1..Len(scheduled_blocks) :
                       /\ scheduled_blocks[i].user_id = userId
                       /\ scheduled_blocks[i].start_time >= startOfDay
                       /\ scheduled_blocks[i].start_time <= startOfDay + 1439 }
       IN /\ toolCall' = ToolCall(userId, "get_schedule")
          /\ toolResult' = Rows("scheduled_blocks", OrderByStart(scheduled_blocks, data))
  /\ UNCHANGED <<scheduled_blocks, goals, projects, brain_dump, telegramSent>>
  /\ UNCHANGED <<meetingVars, scheduleVars, smsVars, plannerVars, chatVars, telegramVars>>

get_goals ==
  /\ toolCall.index < MaxToolCalls
  /\ \E userId \in Users :
       LET data == { g \in 1..Len(goals) :
                       goals[g].user_id = userId /\ goals[g].status = "active" }
           high == { g \in data : goals[g].priority = "high" }
       IN /\ toolCall' = ToolCall(userId, "get_goals")
          /\ toolResult' = Rows("goals", Ascending(high) \o Ascending(data \ high))
  /\ UNCHANGED <<scheduled_blocks, goals, projects, brain_dump, telegramSent>>
  /\ UNCHANGED <<meetingVars, scheduleVars, smsVars, plannerVars, chatVars, telegramVars>>

get_projects ==
  /\ toolCall.index < MaxToolCalls
  /\ \E userId \in Users :
       LET data == { p \in 1..Len(projects) :
                       projects[p].user_id = userId /\ projects[p].status = "active" }
       IN /\ toolCall' = ToolCall(userId, "get_projects")
          /\ toolResult' = Rows("projects", Ascending(data))
  /\ UNCHANGED <<scheduled_blocks, goals, projects, brain_dump, telegramSent>>
  /\ UNCHANGED <<meetingVars, scheduleVars, smsVars, plannerVars, chatVars, telegramVars>>

log_brain_dump ==
  /\ toolCall.index < MaxToolCalls
  /\ \E userId \in Users :
       /\ brain_dump' = Append(brain_dump, BrainDump(userId, "call the dentist"))
       /\ toolCall' = ToolCall(userId, "log_brain_dump")
       /\ toolResult' = <<>>
  /\ UNCHANGED <<scheduled_blocks, goals, projects, telegramSent>>
  /\ UNCHANGED <<meetingVars, scheduleVars, smsVars, plannerVars, chatVars, telegramVars>>

\* update_goal_progress; goal is the row .limit(1) returns
update_goal_progress ==
  /\ toolCall.index < MaxToolCalls
  /\ \E userId \in Users, title \in TitleParts \ {<<>>}, hours_to_add \in {1} :
       /\ toolCall' = ToolCall(userId, "update_goal_progress")
       /\ LET matches == { g \in 1..Len(goals) :
                             /\ goals[g].user_id = userId
                             /\ ilike(goals[g].title, title)
                             /\ goals[g].status = "active" }
          IN IF matches = {}
            THEN /\ toolResult' = <<>>
                 /\ UNCHANGED goals
            ELSE \E goal \in matches :
                   /\ goals' = [goals EXCEPT ![goal].hours_completed = @ + hours_to_add]
                   /\ toolResult' = Rows("goals", <<goal>>)
  /\ UNCHANGED <<scheduled_blocks, projects, brain_dump, telegramSent>>
  /\ UNCHANGED <<meetingVars, scheduleVars, smsVars, plannerVars, chatVars, telegramVars>>

\* mark_block_complete: the scheduled block of the user that started last
mark_block_complete ==
  /\ toolCall.index < MaxToolCalls
  /\ \E userId \in Users :
       /\ toolCall' = ToolCall(userId, "mark_block_complete")
       /\ LET started == { i \in 1..Len(scheduled_blocks) :
                             /\ scheduled_blocks[i].user_id = userId
                             /\ scheduled_blocks[i].status = "scheduled"
                             /\ scheduled_blocks[i].start_time <= now }
              latest == { i \in started :
                            \A j \in started :
                              scheduled_blocks[j].start_time <= scheduled_blocks[i].start_time }
          IN IF started = {}
            THEN /\ toolResult' = <<>>
                 /\ UNCHANGED scheduled_blocks
            ELSE \E block \in latest :
                   /\ scheduled_blocks' =
                        [scheduled_blocks EXCEPT ![block].status = "completed"]
                   /\ toolResult' = Rows("scheduled_blocks", <<block>>)
  /\ UNCHANGED <<goals, projects, brain_dump, telegramSent>>
  /\ UNCHANGED <<meetingVars, scheduleVars, smsVars, plannerVars, chatVars, telegramVars>>

\* TOOLS[fnName](userId, fnArgs) for a call of the assistant
NextTools ==
  \/ create_project
  \/ create_goal
  \/ schedule_block
  \/ reschedule_block
  \/ get_schedule
  \/ get_goals
  \/ get_projects
  \/ log_brain_dump
  \/ update_goal_progress
  \/ mark_block_complete

SpecTools == InitTools /\ [][NextTools]_vars

\* the tables by name
Table(name) ==
  IF name = "scheduled_blocks" THEN scheduled_blocks
  ELSE IF name = "goals" THEN goals
  ELSE IF name = "projects" THEN projects
  ELSE brain_dump

TableAfter(name) ==
  IF name = "scheduled_blocks" THEN scheduled_blocks'
  ELSE IF name = "goals" THEN goals'
  ELSE IF name = "projects" THEN projects'
  ELSE brain_dump'

TableNames == {"scheduled_blocks", "goals", "projects", "brain_dump"}

\* C26: every agent tool run for a user reads and modifies only rows whose
\* user_id is that user: the rows its queries return and the rows it
\* inserts belong to the user, and no call, with any arguments (a block_id
\* included), changes a row owned by another user.
C26_ToolsTouchOwnRowsOnly ==
  [][ /\ \A name \in TableNames :
           \A id \in 1..Len(TableAfter(name)) :
             IF id <= Len(Table(name))
               THEN Table(name)[id].user_id # toolCall'.userId
                      => TableAfter(name)[id] = Table(name)[id]
               ELSE TableAfter(name)[id].user_id = toolCall'.userId
      /\ \A k \in 1..Len(toolResult') :
           TableAfter(toolResult'[k].table)[toolResult'[k].id].user_id = toolCall'.userId ]_vars

====
